---- MODULE Spec2Model ----
(***************************************************************************)
(* A model of the content-generation pipeline of CodeBase-KG:              *)
(*   - generator/generate.py           main, pick_next, write_output, ...  *)
(*   - generator/generate_chapters.py  main, pick_next_language,           *)
(*                                     save_markdown, call_model           *)
(*   - generator/generate_one_chapter.py  main, slugify, write_chapter_file *)
(*   - generator/groq_generate.py      post_with_retries, run_generation   *)
(*   - generator/gemini_polish.py      main, compute_effective_daily_...,  *)
(*                                     call_gemini, log_error              *)
(* Times are counted in tenths of a second (2.0 s = 20).                   *)
(***************************************************************************)
EXTENDS Integers, Sequences, FiniteSets, TLC

VARIABLES
    \* ---- the repository on disk and one run of a generator script ----
    script,        \* which entrypoint the workflow runs
    languages,     \* languages.txt (generate.py) / cfg["languages"] (generate_chapters.py)
    completedLog,  \* the lines of the completion log
    files,         \* the output tree: path |-> text
    pc,            \* position of the running script inside main
    batch,         \* the languages selected by the current/last run
    idx,           \* position of the for loop of main in batch
    content,       \* the text returned by the generation call
    force,         \* FORCE_LANGUAGE / PREVIEW_LANGUAGE of the run ("" = unset)
    mock,          \* MOCK_MODE of the run
    exit,          \* how the last run ended
    runs,          \* number of runs started
    gens,          \* number of generation calls made by the current/last run
    CHAPTER_TITLE_env,  \* CHAPTER_TITLE of the run of generate_one_chapter.py ("" = unset)
    \* ---- observations of the current run ----
    log0,          \* the completion log when the run started
    files0,        \* the output tree when the run started
    picked,        \* the run evaluated the queue selection
    steps,         \* per batch item processed: what happened to it
    prev,          \* the preceding run was killed between write and append: [lang, force]
    normal,        \* no run so far had a language override
    \* ---- one provider call (post_with_retries / call_model) ----
    fn,            \* which function is being executed
    max_retries,   \* max_retries argument / MAX_RETRIES
    rpc,           \* position inside the function
    attempt,       \* the loop variable attempt
    backoff,       \* call_model: the local backoff; post_with_retries: last computed backoff
    provider_mode, \* call_model: result of probe_provider_support
    requests,      \* number of requests sent to the provider
    sleeps,        \* the sleeps made so far: [after |-> attempt, base |-> backoff]
    sleep_time,    \* the duration of the last sleep, jitter included
    failure,       \* the outcome of the last attempt
    seen,          \* the classes of the failures of all attempts so far
    result,        \* how the call ended
    \* ---- one run of groq_generate.run_generation ----
    g_pc,          \* position inside run_generation
    g_lang,        \* index in LANGUAGES of the for loop
    drafts,        \* the drafts tree: path |-> body
    g_exit,        \* how the process ended
    attempted,     \* the languages whose loop body was entered, in order
    written,       \* the files opened for writing by the run: [lang, name]
    pool_size,     \* the number of workers of the pool (0: no pool)
    tasks,         \* per language given to the pool: [pc, resp]
    \* ---- the environment of gemini_polish.py and one run of its main ----
    GEMINI_RPD,    \* int(os.environ GEMINI_RPD)
    GEMINI_RPM,    \* int(os.environ GEMINI_RPM)
    GEMINI_TPM,    \* int(os.environ GEMINI_TPM)
    BATCH_SIZE,    \* int(os.environ BATCH_SIZE)
    REQUESTS_PER_DAY_OVERRIDE,  \* the environment string ("" = unset)
    GOOGLE_ACCESS_TOKEN,        \* TRUE iff the token is set
    items,         \* read_pending_drafts(): the estimated_tokens of each pending draft
    p_pc,          \* position inside main
    p_exit,        \* how main ended
    t_avg,         \* the local t_avg (0 when it is not computed)
    requests_per_day_effective,
    requests_allowed,
    sent,          \* the local counter sent
    batch_no,      \* position of the for loop in batches
    calls,         \* requests.post calls made by call_gemini
    tried,         \* the batches whose try body was entered: [batch, raised]
    errors,        \* the records written by log_error: [error, batch]
    finals,        \* the items whose polished file was written
    p_files,       \* the output tree gemini_polish.py works on: path |-> content
    now,           \* int(time.time()), counted from the start of the run
    \* ---- one call of a helper function ----
    slug_fn,       \* the script whose slugify was called ("" = none yet)
    slug_arg,      \* its argument s
    slug_res,      \* the value it returned
    \* ---- one call of utils/rate_limit.safe_call ----
    attempts,      \* the argument attempts
    sc_pc,         \* position inside safe_call
    sc_attempt,    \* the loop variable attempt
    fn_calls,      \* the calls of fn so far: what each returned or raised
    last_error,    \* the local last_error
    sc_sleeps,     \* number of time.sleep calls
    sc_result,     \* what safe_call returned or raised
    \* ---- one call of gemini_polish.extract_polished_texts ----
    ex_resp,       \* the argument resp_json
    ex_count,      \* the argument expected_count
    ex_result      \* what the call returned or raised

runVars   == <<script, languages, completedLog, files, pc, batch, idx, content,
               force, mock, exit, runs, gens, CHAPTER_TITLE_env, log0, files0, picked,
               steps, prev, normal>>
retryVars == <<fn, max_retries, rpc, attempt, backoff, provider_mode, requests,
               sleeps, sleep_time, failure, seen, result>>
draftVars == <<g_pc, g_lang, drafts, g_exit, attempted, written, pool_size, tasks>>
polishVars == <<GEMINI_RPD, GEMINI_RPM, GEMINI_TPM, BATCH_SIZE,
                REQUESTS_PER_DAY_OVERRIDE, GOOGLE_ACCESS_TOKEN, items, p_pc,
                p_exit, t_avg, requests_per_day_effective, requests_allowed,
                sent, batch_no, calls, tried, errors, finals, p_files, now>>
slugVars  == <<slug_fn, slug_arg, slug_res>>
safeCallVars == <<attempts, sc_pc, sc_attempt, fn_calls, last_error, sc_sleeps, sc_result>>
extractVars == <<ex_resp, ex_count, ex_result>>
utilVars  == <<slugVars, safeCallVars, extractVars>>
vars      == <<runVars, retryVars, draftVars, polishVars, utilVars>>

----------------------------------------------------------------------------
(* Bounds of the model *)

MaxLangs == 3      \* longest language list
MaxRuns  == 2      \* runs of a script in one behaviour
MaxRetriesBound == 5  \* largest max_retries / MAX_RETRIES explored

(* The names that occur in language lists and overrides. *)
Langs == {"Lua", "Zig", "python"}

----------------------------------------------------------------------------
(* Strings *)

LowerLetters == "abcdefghijklmnopqrstuvwxyz"
UpperLetters == "ABCDEFGHIJKLMNOPQRSTUVWXYZ"
DigitChars   == "0123456789"

CharAt(s, i) == SubSeq(s, i, i)

IndexIn(ch, s) ==
    IF \E i \in 1..Len(s) : CharAt(s, i) = ch
    THEN CHOOSE i \in 1..Len(s) : CharAt(s, i) = ch
    ELSE 0

(* tok in s *)
Contains(s, tok) ==
    \E i \in 1..(Len(s) - Len(tok) + 1) : SubSeq(s, i, i + Len(tok) - 1) = tok

LowerChar(ch) ==
    LET i == IndexIn(ch, UpperLetters)
    IN  IF i = 0 THEN ch ELSE CharAt(LowerLetters, i)

UpperChar(ch) ==
    LET i == IndexIn(ch, LowerLetters)
    IN  IF i = 0 THEN ch ELSE CharAt(UpperLetters, i)

RECURSIVE Lower(_)
Lower(s) ==
    IF Len(s) = 0 THEN ""
    ELSE LowerChar(CharAt(s, 1)) \o Lower(SubSeq(s, 2, Len(s)))

(* tok in s.lower(), for a lower-case tok *)
InLower(tok, s) ==
    \E i \in 1..(Len(s) - Len(tok) + 1) :
        \A k \in 1..Len(tok) : LowerChar(CharAt(s, i + k - 1)) = CharAt(tok, k)

IsAlnum(ch) ==
    \/ IndexIn(ch, LowerLetters) # 0
    \/ IndexIn(ch, UpperLetters) # 0
    \/ IndexIn(ch, DigitChars) # 0

----------------------------------------------------------------------------
(* generate.py *)

SMALL_LANGUAGES == {"Lua", "Nim", "Crystal", "Smalltalk", "Haxe", "Zig", "Racket"}
MAX_SMALL_PER_RUN == 2

Min2(a, b) == IF a <= b THEN a ELSE b

(* read_list applied to the completion log, turned into a set by main *)
read_list(lines) == {lines[i] : i \in 1..Len(lines)}

(* pick_from with the neighbour taken into the group unchecked *)
RECURSIVE pick_from_unchecked_neighbour(_, _, _)
pick_from_unchecked_neighbour(langs, completed, i) ==
    IF i > Len(langs) THEN <<>>
    ELSE IF langs[i] \in completed THEN pick_from_unchecked_neighbour(langs, completed, i + 1)
    ELSE IF langs[i] \in SMALL_LANGUAGES
         THEN LET group == IF i + 1 <= Len(langs)
                           THEN <<langs[i], langs[i + 1]>>
                           ELSE <<langs[i]>>
              IN  SubSeq(group, 1, Min2(MAX_SMALL_PER_RUN, Len(group)))
         ELSE <<langs[i]>>

(* the for loop of pick_next, entered at index i *)
RECURSIVE pick_from(_, _, _)
pick_from(langs, completed, i) ==
    IF i > Len(langs) THEN <<>>
    ELSE IF langs[i] \in completed THEN pick_from(langs, completed, i + 1)
    ELSE IF langs[i] \in SMALL_LANGUAGES
         THEN LET group == IF i + 1 <= Len(langs) /\ langs[i + 1] \notin completed
                           THEN <<langs[i], langs[i + 1]>>
                           ELSE <<langs[i]>>
              IN  SubSeq(group, 1, Min2(MAX_SMALL_PER_RUN, Len(group)))
         ELSE <<langs[i]>>

pick_next(langs, completed) == pick_from(langs, completed, 1)

(* write_output: output/<lang>/book.md *)
book_path(lang) == "output/" \o lang \o "/book.md"

----------------------------------------------------------------------------
(* generate_chapters.py *)

read_completed(lines) == {lines[i] : i \in 1..Len(lines)}

(* next_language_from with the return None inside the loop body *)
next_language_from_first_only(langs, completed, i) ==
    IF i > Len(langs) THEN ""
    ELSE IF langs[i] \notin completed THEN langs[i]
    ELSE ""

(* pick_next_language; "" stands for None *)
RECURSIVE next_language_from(_, _, _)
next_language_from(langs, completed, i) ==
    IF i > Len(langs) THEN ""
    ELSE IF langs[i] \notin completed THEN langs[i]
    ELSE next_language_from(langs, completed, i + 1)

(* pick_next_language that does not read the completion log *)
pick_next_language_ignores_log(langs, lines) == next_language_from(langs, {}, 1)

pick_next_language(langs, lines) == next_language_from(langs, read_completed(lines), 1)

RECURSIVE keep_chars(_)
keep_chars(s) ==
    IF Len(s) = 0 THEN ""
    ELSE LET ch == CharAt(s, 1)
             c2 == IF ch = " " THEN "_" ELSE ch
         IN  (IF IsAlnum(c2) \/ c2 \in {"_", "-", "."} THEN c2 ELSE "")
             \o keep_chars(SubSeq(s, 2, Len(s)))

safe_filename(s) == LET keep == keep_chars(s) IN SubSeq(keep, 1, Min2(200, Len(keep)))

language_folder_titlecase(language) ==
    IF Len(language) = 0 THEN "Unknown"
    ELSE UpperChar(CharAt(language, 1)) \o SubSeq(language, 2, Len(language))

CHAPTER_TITLE == "Introduction"

(* save_markdown: <OUTDIR>/<TitleCase>/<safe title>.md *)
chapter_path(language, chapter_title) ==
    "output/" \o language_folder_titlecase(language) \o "/" \o safe_filename(chapter_title) \o ".md"

----------------------------------------------------------------------------
(* generate_one_chapter.py *)

IsSlugChar(ch) == IndexIn(ch, LowerLetters) # 0 \/ IndexIn(ch, DigitChars) # 0

(* s.strip(ch) *)
RECURSIVE lstrip(_, _)
lstrip(s, ch) ==
    IF Len(s) > 0 /\ CharAt(s, 1) = ch THEN lstrip(SubSeq(s, 2, Len(s)), ch) ELSE s

RECURSIVE rstrip(_, _)
rstrip(s, ch) ==
    IF Len(s) > 0 /\ CharAt(s, Len(s)) = ch THEN rstrip(SubSeq(s, 1, Len(s) - 1), ch) ELSE s

strip(s, ch) == rstrip(lstrip(s, ch), ch)

(* re.sub(r"[^a-z0-9]+", "-", s): in_run tells that the previous character
   belonged to a run that was already replaced *)
RECURSIVE sub_non_slug(_, _)
sub_non_slug(s, in_run) ==
    IF Len(s) = 0 THEN ""
    ELSE LET ch == CharAt(s, 1)
             rest == SubSeq(s, 2, Len(s))
         IN  IF IsSlugChar(ch) THEN ch \o sub_non_slug(rest, FALSE)
             ELSE (IF in_run THEN "" ELSE "-") \o sub_non_slug(rest, TRUE)

(* re.sub(r"-+", "-", s) *)
RECURSIVE sub_hyphens(_, _)
sub_hyphens(s, in_run) ==
    IF Len(s) = 0 THEN ""
    ELSE LET ch == CharAt(s, 1)
             rest == SubSeq(s, 2, Len(s))
         IN  IF ch # "-" THEN ch \o sub_hyphens(rest, FALSE)
             ELSE (IF in_run THEN "" ELSE "-") \o sub_hyphens(rest, TRUE)

(* slugify without the final strip("-") *)
slugify_or_keeps_edge_hyphens(s, fallback) ==
    LET s1 == Lower(strip(s, " "))
        s2 == sub_non_slug(s1, FALSE)
        s3 == sub_hyphens(s2, FALSE)
    IN  IF s3 = "" THEN fallback ELSE s3

slugify_or(s, fallback) ==
    LET s1 == Lower(strip(s, " "))
        s2 == sub_non_slug(s1, FALSE)
        s3 == strip(sub_hyphens(s2, FALSE), "-")
    IN  IF s3 = "" THEN fallback ELSE s3

slugify(s) == slugify_or(s, "chapter")

(* write_chapter_file: OUTPUT_DIR / language / "chapters" / f"{slug}.md" *)
chapter_file_path(language, title) ==
    "output/" \o language \o "/chapters/" \o slugify(title) \o ".md"

(* the values given to CHAPTER_TITLE *)
Titles == {"Data Types", "data types!", "C++"}

----------------------------------------------------------------------------
(* The state before any run *)

Scripts == {"generate.py", "generate_chapters.py", "generate_one_chapter.py"}

(* all lists over S of length at most n *)
SeqsUpTo(S, n) == UNION {[1..k -> S] : k \in 0..n}

NoFiles == [p \in {} |-> 0]

(* an attempt that did not fail *)
NoFailure == [class |-> "none", exc |-> "none", status |-> 200, msg |-> ""]

RetryIdle ==
    /\ fn = "none"
    /\ max_retries = 0
    /\ rpc = "idle"
    /\ attempt = 0
    /\ backoff = 0
    /\ provider_mode = "none"
    /\ requests = 0
    /\ sleeps = <<>>
    /\ sleep_time = 0
    /\ failure = NoFailure
    /\ seen = {}
    /\ result = "none"

(* no run was killed between write and append *)
NoCrash == [lang |-> "", force |-> ""]

RunIdle ==
    /\ completedLog = <<>>
    /\ files = NoFiles
    /\ pc = "idle"
    /\ batch = <<>>
    /\ idx = 0
    /\ content = 0
    /\ force = ""
    /\ mock = FALSE
    /\ exit = "none"
    /\ runs = 0
    /\ gens = 0
    /\ log0 = <<>>
    /\ files0 = NoFiles
    /\ picked = FALSE
    /\ steps = <<>>
    /\ CHAPTER_TITLE_env = ""
    /\ prev = NoCrash
    /\ normal = TRUE

DraftIdle ==
    /\ g_pc = "idle"
    /\ g_lang = 0
    /\ drafts = NoFiles
    /\ g_exit = "none"
    /\ attempted = <<>>
    /\ written = <<>>
    /\ pool_size = 0
    /\ tasks = <<>>

(* gemini_polish.py with its default environment and no pending draft *)
PolishIdle ==
    /\ GEMINI_RPD = 20
    /\ GEMINI_RPM = 5
    /\ GEMINI_TPM = 250000
    /\ BATCH_SIZE = 1
    /\ REQUESTS_PER_DAY_OVERRIDE = ""
    /\ GOOGLE_ACCESS_TOKEN = FALSE
    /\ items = <<>>
    /\ p_pc = "idle"
    /\ p_exit = "none"
    /\ t_avg = 0
    /\ requests_per_day_effective = 0
    /\ requests_allowed = 0
    /\ sent = 0
    /\ batch_no = 0
    /\ calls = 0
    /\ tried = <<>>
    /\ errors = <<>>
    /\ finals = {}
    /\ p_files = NoFiles
    /\ now = 0

(* no helper function was called *)
UtilIdle ==
    /\ slug_fn = ""
    /\ slug_arg = ""
    /\ slug_res = ""
    /\ attempts = 0
    /\ sc_pc = "idle"
    /\ sc_attempt = 0
    /\ fn_calls = <<>>
    /\ last_error = "None"
    /\ sc_sleeps = 0
    /\ sc_result = [kind |-> "none", value |-> 0, exc |-> "", last |-> ""]
    /\ ex_resp = [type |-> "none", candidates_kind |-> "absent", candidates |-> <<>>,
                  has_output |-> FALSE, output |-> ""]
    /\ ex_count = 0
    /\ ex_result = [raised |-> "not called", out |-> <<>>]

Init ==
    /\ script \in Scripts
    /\ languages \in (IF script = "generate_one_chapter.py" THEN {<<>>}
                      ELSE SeqsUpTo(Langs, MaxLangs))
    /\ RunIdle
    /\ RetryIdle
    /\ DraftIdle
    /\ PolishIdle
    /\ UtilIdle

----------------------------------------------------------------------------
(* Steps shared by the main functions *)

(* the path each script writes for a language *)
OutPaths ==
    [s \in Scripts |-> [lang \in Langs |-> [t \in Titles \cup {""} |->
        CASE s = "generate.py"             -> book_path(lang)
          [] s = "generate_chapters.py"    -> chapter_path(lang, CHAPTER_TITLE)
          [] s = "generate_one_chapter.py" -> chapter_file_path(lang, t)]]]

OutPath(lang) == OutPaths[script][lang][CHAPTER_TITLE_env]

(* WriteText that leaves an existing file as it is *)
WriteText_keeps_existing(fs, path, text) ==
    [p \in DOMAIN fs \cup {path} |-> IF p \in DOMAIN fs THEN fs[p] ELSE text]

(* path.write_text(content): open for writing truncates, then the text is written *)
WriteText(fs, path, text) ==
    [p \in DOMAIN fs \cup {path} |-> IF p = path THEN text ELSE fs[p]]

(* the paths that fs and fs2 do not hold alike *)
Touched(fs, fs2) ==
    {p \in DOMAIN fs \cup DOMAIN fs2 :
        \/ p \notin DOMAIN fs
        \/ p \notin DOMAIN fs2
        \/ fs[p] # fs2[p]}

WriteOutcomes == {"ok", "open_failed", "write_failed"}

FilesAfterWrite(fs, path, text, w) ==
    CASE w = "ok"           -> WriteText(fs, path, text)
      [] w = "open_failed"  -> fs
      [] w = "write_failed" -> WriteText(fs, path, 0)

(* what happened to one batch item: the outcome of each call of the try body,
   the text generated, and whether the generation call used the provider client *)
NewStep(lang, g, text) ==
    [lang |-> lang, gen |-> g, text |-> text, write |-> "none", append |-> "none",
     remote |-> TRUE]

(* generate_chapters.py call_model lines 225-231: the chapter fabricated in
   MOCK_MODE, returned before the provider is probed or called *)
FabricatedStep(lang, text) ==
    [lang |-> lang, gen |-> "ok", text |-> text, write |-> "none", append |-> "none",
     remote |-> FALSE]

(* the value of runs in a behaviour whose runs are not counted: the workflow
   is started again and again *)
Uncounted == MaxRuns + 1

BeginRun ==
    /\ pc = "idle"
    /\ runs # MaxRuns
    /\ runs' = IF runs < MaxRuns THEN runs + 1 ELSE runs
    /\ log0' = completedLog
    /\ files0' = files
    /\ gens' = 0
    /\ steps' = <<>>
    /\ content' = 0
    /\ prev' = IF exit = "crashed" THEN prev ELSE NoCrash

(* the text returned by the generation call of this run for this batch
   position: upstream generation never returns the same text twice; 0 is the
   text of a truncated file *)
NewText == (runs - 1) * MAX_SMALL_PER_RUN + idx

(* the run ends without having entered the generation loop *)
EndAtStart(code, sel) ==
    /\ pc' = "idle"
    /\ exit' = code
    /\ batch' = sel
    /\ idx' = 0

EnterLoop(sel) ==
    /\ pc' = "generate"
    /\ exit' = "running"
    /\ batch' = sel
    /\ idx' = 1

----------------------------------------------------------------------------
(* generate.py main *)

(* "continue" / end of the for body: next language of the batch, or the run finishes *)
NextInBatch ==
    IF idx < Len(batch)
    THEN pc' = "generate" /\ idx' = idx + 1 /\ exit' = exit
    ELSE pc' = "idle" /\ idx' = idx /\ exit' = "finished"

(* MainStart that honours the override only for a language of languages.txt *)
MainStart_force_only_if_listed(force_lang, prompt_exists) ==
    /\ script = "generate.py"
    /\ BeginRun
    /\ force' = force_lang
    /\ mock' = mock
    /\ normal' = (normal /\ force_lang = "")
    /\ IF languages = <<>>
       THEN picked' = FALSE /\ EndAtStart("exit0", <<>>)
       ELSE IF ~prompt_exists
       THEN picked' = FALSE /\ EndAtStart("exit1", <<>>)
       ELSE IF force_lang # "" /\ \E k \in 1..Len(languages) : languages[k] = force_lang
       THEN picked' = FALSE /\ EnterLoop(<<force_lang>>)
       ELSE LET sel == pick_next(languages, read_list(completedLog))
            IN  /\ picked' = TRUE
                /\ IF sel = <<>> THEN EndAtStart("return", sel) ELSE EnterLoop(sel)
    /\ UNCHANGED <<script, languages, completedLog, files, CHAPTER_TITLE_env,
                   retryVars, draftVars, polishVars, utilVars>>

(* lines 181-213: configuration, queue selection *)
MainStart(force_lang, prompt_exists) ==
    /\ script = "generate.py"
    /\ BeginRun
    /\ force' = force_lang
    /\ mock' = mock
    /\ normal' = (normal /\ force_lang = "")
    /\ IF languages = <<>>
       THEN picked' = FALSE /\ EndAtStart("exit0", <<>>)
       ELSE IF ~prompt_exists
       THEN picked' = FALSE /\ EndAtStart("exit1", <<>>)
       ELSE IF force_lang # ""
       THEN picked' = FALSE /\ EnterLoop(<<force_lang>>)
       ELSE LET sel == pick_next(languages, read_list(completedLog))
            IN  /\ picked' = TRUE
                /\ IF sel = <<>> THEN EndAtStart("return", sel) ELSE EnterLoop(sel)
    /\ UNCHANGED <<script, languages, completedLog, files, CHAPTER_TITLE_env,
                   retryVars, draftVars, polishVars, utilVars>>

(* MainGenerate with the append reached after a failed generation as well *)
MainGenerate_append_on_raise(ok) ==
    /\ script = "generate.py"
    /\ pc = "generate"
    /\ gens' = gens + 1
    /\ IF ok
       THEN /\ content' = NewText
            /\ steps' = Append(steps, NewStep(batch[idx], "ok", NewText))
            /\ pc' = "write"
       ELSE /\ content' = content
            /\ steps' = Append(steps, NewStep(batch[idx], "raised", 0))
            /\ pc' = "append"
    /\ UNCHANGED <<script, languages, completedLog, files, batch, idx, exit, force, mock, runs,
                   log0, files0, picked, CHAPTER_TITLE_env, prev, normal,
                   retryVars, draftVars, polishVars, utilVars>>

(* line 218: generate_for_language returns a text or raises *)
MainGenerate(ok) ==
    /\ script = "generate.py"
    /\ pc = "generate"
    /\ gens' = gens + 1
    /\ IF ok
       THEN /\ content' = NewText
            /\ steps' = Append(steps, NewStep(batch[idx], "ok", NewText))
            /\ pc' = "write"
            /\ UNCHANGED <<idx, exit>>
       ELSE /\ content' = content
            /\ steps' = Append(steps, NewStep(batch[idx], "raised", 0))
            /\ NextInBatch
    /\ UNCHANGED <<script, languages, completedLog, files, batch, force, mock, runs,
                   log0, files0, picked, CHAPTER_TITLE_env, prev, normal,
                   retryVars, draftVars, polishVars, utilVars>>

(* MainWrite that marks the language complete as part of the write *)
MainWrite_marks_complete(w) ==
    /\ script = "generate.py"
    /\ pc = "write"
    /\ files' = FilesAfterWrite(files, OutPath(batch[idx]), content, w)
    /\ completedLog' = IF w = "ok" THEN Append(completedLog, batch[idx]) ELSE completedLog
    /\ IF w = "ok"
       THEN /\ steps' = [steps EXCEPT ![Len(steps)].write = "ok"]
            /\ pc' = "append"
            /\ UNCHANGED <<idx, exit>>
       ELSE /\ steps' = [steps EXCEPT ![Len(steps)].write = "raised"]
            /\ NextInBatch
    /\ UNCHANGED <<script, languages, batch, content, force, mock, runs, gens,
                   log0, files0, picked, CHAPTER_TITLE_env, prev, normal,
                   retryVars, draftVars, polishVars, utilVars>>

(* line 219: write_output *)
MainWrite(w) ==
    /\ script = "generate.py"
    /\ pc = "write"
    /\ files' = FilesAfterWrite(files, OutPath(batch[idx]), content, w)
    /\ IF w = "ok"
       THEN /\ steps' = [steps EXCEPT ![Len(steps)].write = "ok"]
            /\ pc' = "append"
            /\ UNCHANGED <<idx, exit>>
       ELSE /\ steps' = [steps EXCEPT ![Len(steps)].write = "raised"]
            /\ NextInBatch
    /\ UNCHANGED <<script, languages, completedLog, batch, content, force, mock, runs, gens,
                   log0, files0, picked, CHAPTER_TITLE_env, prev, normal,
                   retryVars, draftVars, polishVars, utilVars>>

(* MainAppend that leaves the completion log as it was *)
MainAppend_skips_log(ok) ==
    /\ script = "generate.py"
    /\ pc = "append"
    /\ completedLog' = completedLog
    /\ steps' = [steps EXCEPT ![Len(steps)].append = IF ok THEN "ok" ELSE "raised"]
    /\ NextInBatch
    /\ UNCHANGED <<script, languages, files, batch, content, force, mock, runs, gens,
                   log0, files0, picked, CHAPTER_TITLE_env, prev, normal,
                   retryVars, draftVars, polishVars, utilVars>>

(* lines 220-222: append_completed, then the polite pause *)
MainAppend(ok) ==
    /\ script = "generate.py"
    /\ pc = "append"
    /\ IF ok
       THEN /\ completedLog' = Append(completedLog, batch[idx])
            /\ steps' = [steps EXCEPT ![Len(steps)].append = "ok"]
       ELSE /\ completedLog' = completedLog
            /\ steps' = [steps EXCEPT ![Len(steps)].append = "raised"]
    /\ NextInBatch
    /\ UNCHANGED <<script, languages, files, batch, content, force, mock, runs, gens,
                   log0, files0, picked, CHAPTER_TITLE_env, prev, normal,
                   retryVars, draftVars, polishVars, utilVars>>

----------------------------------------------------------------------------
(* generate_chapters.py main *)

(* ChaptersStart that takes any language that is not completed, not the first *)
ChaptersStart_picks_any(preview_language, mock_mode) ==
    /\ script = "generate_chapters.py"
    /\ BeginRun
    /\ force' = preview_language
    /\ mock' = mock_mode
    /\ normal' = (normal /\ preview_language = "")
    /\ picked' = (preview_language = "")
    /\ \E lang \in IF preview_language # "" THEN {preview_language}
                    ELSE IF pick_next_language(languages, completedLog) = "" THEN {""}
                    ELSE {languages[i] : i \in 1..Len(languages)}
                             \ read_completed(completedLog) :
          IF lang = "" THEN EndAtStart("return0", <<>>) ELSE EnterLoop(<<lang>>)
    /\ UNCHANGED <<script, languages, completedLog, files, CHAPTER_TITLE_env,
                   retryVars, draftVars, polishVars, utilVars>>

(* lines 380-390 *)
ChaptersStart(preview_language, mock_mode) ==
    /\ script = "generate_chapters.py"
    /\ BeginRun
    /\ force' = preview_language
    /\ mock' = mock_mode
    /\ normal' = (normal /\ preview_language = "")
    /\ picked' = (preview_language = "")
    /\ LET lang == IF preview_language # "" THEN preview_language
                   ELSE pick_next_language(languages, completedLog)
       IN  IF lang = "" THEN EndAtStart("return0", <<>>) ELSE EnterLoop(<<lang>>)
    /\ UNCHANGED <<script, languages, completedLog, files, CHAPTER_TITLE_env,
                   retryVars, draftVars, polishVars, utilVars>>

(* ChaptersGenerate with the MOCK_MODE test of call_model left out *)
ChaptersGenerate_calls_provider_in_mock(ok) ==
    /\ script = "generate_chapters.py"
    /\ pc = "generate"
    /\ gens' = gens + 1
    /\ IF ok
       THEN /\ content' = NewText
            /\ steps' = Append(steps, NewStep(batch[idx], "ok", NewText))
            /\ pc' = "write"
            /\ exit' = exit
       ELSE /\ content' = content
            /\ steps' = Append(steps, NewStep(batch[idx], "raised", 0))
            /\ pc' = "idle"
            /\ exit' = "return3"
    /\ UNCHANGED <<script, languages, completedLog, files, batch, idx, force, mock, runs,
                   log0, files0, picked, CHAPTER_TITLE_env, prev, normal,
                   retryVars, draftVars, polishVars, utilVars>>

(* lines 369-372: generate_for_language up to the return of call_model;
   in MOCK_MODE call_model returns the fabricated chapter *)
ChaptersGenerate(ok) ==
    /\ script = "generate_chapters.py"
    /\ pc = "generate"
    /\ mock => ok
    /\ gens' = gens + 1
    /\ IF ok
       THEN /\ content' = NewText
            /\ steps' = Append(steps, IF mock THEN FabricatedStep(batch[idx], NewText)
                                      ELSE NewStep(batch[idx], "ok", NewText))
            /\ pc' = "write"
            /\ exit' = exit
       ELSE /\ content' = content
            /\ steps' = Append(steps, NewStep(batch[idx], "raised", 0))
            /\ pc' = "idle"
            /\ exit' = "return3"
    /\ UNCHANGED <<script, languages, completedLog, files, batch, idx, force, mock, runs,
                   log0, files0, picked, CHAPTER_TITLE_env, prev, normal,
                   retryVars, draftVars, polishVars, utilVars>>

(* ChaptersSave without the MOCK_MODE test before the append *)
ChaptersSave_ignores_mock(w) ==
    /\ script = "generate_chapters.py"
    /\ pc = "write"
    /\ files' = FilesAfterWrite(files, OutPath(batch[idx]), content, w)
    /\ IF w = "ok"
       THEN /\ steps' = [steps EXCEPT ![Len(steps)].write = "ok"]
            /\ pc' = "append"
            /\ exit' = exit
       ELSE /\ steps' = [steps EXCEPT ![Len(steps)].write = "raised"]
            /\ pc' = "idle"
            /\ exit' = "return3"
    /\ UNCHANGED <<script, languages, completedLog, batch, idx, content, force, mock, runs,
                   gens, log0, files0, picked, CHAPTER_TITLE_env, prev, normal,
                   retryVars, draftVars, polishVars, utilVars>>

(* lines 375-377 and 394-398: save_markdown, then the MOCK_MODE test of main *)
ChaptersSave(w) ==
    /\ script = "generate_chapters.py"
    /\ pc = "write"
    /\ files' = FilesAfterWrite(files, OutPath(batch[idx]), content, w)
    /\ IF w = "ok"
       THEN /\ steps' = [steps EXCEPT ![Len(steps)].write = "ok"]
            /\ IF mock THEN pc' = "idle" /\ exit' = "return0"
                       ELSE pc' = "append" /\ exit' = exit
       ELSE /\ steps' = [steps EXCEPT ![Len(steps)].write = "raised"]
            /\ pc' = "idle"
            /\ exit' = "return3"
    /\ UNCHANGED <<script, languages, completedLog, batch, idx, content, force, mock, runs,
                   gens, log0, files0, picked, CHAPTER_TITLE_env, prev, normal,
                   retryVars, draftVars, polishVars, utilVars>>

(* ChaptersAppend with the log opened for writing instead of appending *)
ChaptersAppend_truncates(ok) ==
    /\ script = "generate_chapters.py"
    /\ pc = "append"
    /\ IF ok
       THEN /\ completedLog' = <<batch[idx]>>
            /\ steps' = [steps EXCEPT ![Len(steps)].append = "ok"]
            /\ exit' = "return0"
       ELSE /\ completedLog' = completedLog
            /\ steps' = [steps EXCEPT ![Len(steps)].append = "raised"]
            /\ exit' = "return3"
    /\ pc' = "idle"
    /\ UNCHANGED <<script, languages, files, batch, idx, content, force, mock, runs, gens,
                   log0, files0, picked, CHAPTER_TITLE_env, prev, normal,
                   retryVars, draftVars, polishVars, utilVars>>

(* lines 395-402 *)
ChaptersAppend(ok) ==
    /\ script = "generate_chapters.py"
    /\ pc = "append"
    /\ IF ok
       THEN /\ completedLog' = Append(completedLog, batch[idx])
            /\ steps' = [steps EXCEPT ![Len(steps)].append = "ok"]
            /\ exit' = "return0"
       ELSE /\ completedLog' = completedLog
            /\ steps' = [steps EXCEPT ![Len(steps)].append = "raised"]
            /\ exit' = "return3"
    /\ pc' = "idle"
    /\ UNCHANGED <<script, languages, files, batch, idx, content, force, mock, runs, gens,
                   log0, files0, picked, CHAPTER_TITLE_env, prev, normal,
                   retryVars, draftVars, polishVars, utilVars>>

----------------------------------------------------------------------------
(* generate_one_chapter.py main *)

(* lines 169-184 *)
OneChapterStart(lang, title) ==
    /\ script = "generate_one_chapter.py"
    /\ BeginRun
    /\ force' = lang
    /\ CHAPTER_TITLE_env' = title
    /\ mock' = mock
    /\ normal' = (normal /\ lang = "")
    /\ picked' = FALSE
    /\ IF lang = "" \/ title = ""
       THEN EndAtStart("exit1", <<>>)
       ELSE EnterLoop(<<lang>>)
    /\ UNCHANGED <<script, languages, completedLog, files, retryVars, draftVars, polishVars, utilVars>>

(* lines 187-198: call_openai_auto returns a text or raises; the heading is
   put in front of a text that lacks one *)
OneChapterGenerate(ok) ==
    /\ script = "generate_one_chapter.py"
    /\ pc = "generate"
    /\ gens' = gens + 1
    /\ IF ok
       THEN /\ content' = NewText
            /\ steps' = Append(steps, NewStep(batch[idx], "ok", NewText))
            /\ pc' = "write"
            /\ exit' = exit
       ELSE /\ content' = content
            /\ steps' = Append(steps, NewStep(batch[idx], "raised", 0))
            /\ pc' = "idle"
            /\ exit' = "exit1"
    /\ UNCHANGED <<script, languages, completedLog, files, batch, idx, force, mock, runs,
                   log0, files0, picked, CHAPTER_TITLE_env, prev, normal,
                   retryVars, draftVars, polishVars, utilVars>>

(* lines 200-202: write_chapter_file; an exception of the write is not caught *)
OneChapterWrite(w) ==
    /\ script = "generate_one_chapter.py"
    /\ pc = "write"
    /\ files' = FilesAfterWrite(files, OutPath(batch[idx]), content, w)
    /\ steps' = [steps EXCEPT ![Len(steps)].write = IF w = "ok" THEN "ok" ELSE "raised"]
    /\ pc' = "idle"
    /\ exit' = IF w = "ok" THEN "return0" ELSE "exit1"
    /\ UNCHANGED <<script, languages, completedLog, batch, idx, content, force, mock, runs,
                   gens, log0, files0, picked, CHAPTER_TITLE_env, prev, normal,
                   retryVars, draftVars, polishVars, utilVars>>

(* the process is killed while a run is in progress *)
Crash ==
    /\ pc # "idle"
    /\ pc' = "idle"
    /\ exit' = "crashed"
    /\ prev' = IF pc = "append" THEN [lang |-> batch[idx], force |-> force] ELSE NoCrash
    /\ UNCHANGED <<script, languages, completedLog, files, batch, idx, content, force, mock,
                   runs, gens, log0, files0, picked, steps, CHAPTER_TITLE_env, normal,
                   retryVars, draftVars, polishVars, utilVars>>

Overrides == Langs \cup {""}

Next ==
    \/ \E f \in Overrides, p \in BOOLEAN : MainStart(f, p)
    \/ \E ok \in BOOLEAN : MainGenerate(ok)
    \/ \E w \in WriteOutcomes : MainWrite(w)
    \/ \E ok \in BOOLEAN : MainAppend(ok)
    \/ \E f \in Overrides, m \in BOOLEAN : ChaptersStart(f, m)
    \/ \E ok \in BOOLEAN : ChaptersGenerate(ok)
    \/ \E w \in WriteOutcomes : ChaptersSave(w)
    \/ \E ok \in BOOLEAN : ChaptersAppend(ok)
    \/ \E f \in Overrides, t \in Titles \cup {""} : OneChapterStart(f, t)
    \/ \E ok \in BOOLEAN : OneChapterGenerate(ok)
    \/ \E w \in WriteOutcomes : OneChapterWrite(w)
    \/ Crash

Spec == Init /\ [][Next]_vars

TypeOK ==
    /\ script \in Scripts
    /\ pc \in {"idle", "generate", "write", "append"}
    /\ Len(batch) <= MAX_SMALL_PER_RUN
    /\ runs \in 0..MaxRuns

----------------------------------------------------------------------------
(* Observations used by the properties *)

MinOf(S) == CHOOSE m \in S : \A n \in S : m <= n

Count(seq, x) == Cardinality({i \in 1..Len(seq) : seq[i] = x})

IsPrefix(a, b) == Len(a) <= Len(b) /\ SubSeq(b, 1, Len(a)) = a

(* the entries the current/last run has added to the completion log *)
NewEntries == SubSeq(completedLog, Len(log0) + 1, Len(completedLog))

(* the positions of the language list that are not completed *)
Eligible(langs, completed) == {i \in 1..Len(langs) : langs[i] \notin completed}

RunEnded == pc = "idle" /\ exit \in {"exit0", "exit1", "return", "finished", "return0", "return3"}

MockChapters == script = "generate_chapters.py" /\ mock

(* the scripts that keep a completion log *)
QueueScripts == {"generate.py", "generate_chapters.py"}

StepsOf(L) == {i \in 1..Len(steps) : steps[i].lang = L}

----------------------------------------------------------------------------
(* C1: a language is appended to the completion log only after, in the same
   run, its generation call returned and its output file was written; a
   processing whose generation call or file write raised adds no entry, so a
   language none of whose processings succeeded gains zero entries.
   State part: the entries added by the run are exactly, in order, the batch
   items whose append ran, each of them generated and written before.
   Step part: the log changes only at the append position, by one entry for
   the language at hand, while the file at its path holds the text just
   generated. *)
C1_LogMatchesSteps ==
    /\ IsPrefix(log0, completedLog)
    /\ Len(NewEntries) = Cardinality({i \in 1..Len(steps) : steps[i].append = "ok"})
    /\ \A i \in 1..Len(steps) :
          /\ steps[i].append # "none" => steps[i].gen = "ok" /\ steps[i].write = "ok"
          /\ (steps[i].gen = "raised" \/ steps[i].write = "raised") => steps[i].append = "none"
    /\ \A L \in Langs :
          /\ Count(NewEntries, L) = Cardinality({i \in StepsOf(L) : steps[i].append = "ok"})
          /\ (\A i \in StepsOf(L) : steps[i].gen # "ok" \/ steps[i].write # "ok")
                => Count(NewEntries, L) = 0

C1_AppendStep ==
    completedLog' # completedLog =>
        /\ pc = "append"
        /\ completedLog' = Append(completedLog, batch[idx])
        /\ steps[Len(steps)].lang = batch[idx]
        /\ steps[Len(steps)].gen = "ok"
        /\ steps[Len(steps)].write = "ok"
        /\ OutPath(batch[idx]) \in DOMAIN files
        /\ files[OutPath(batch[idx])] = content
        /\ content = steps[Len(steps)].text

(* C1: the log matches the successful steps of the run in every state, and
   every change of the log is an append made after generation and write. *)
C1_AppendOnlyOnSuccess == [](C1_LogMatchesSteps) /\ [][C1_AppendStep]_vars

(* a batch of two where the first item failed at the write and the second was appended *)
C1_Witness ==
    /\ pc = "idle"
    /\ Len(steps) = 2
    /\ steps[1].gen = "ok" /\ steps[1].write = "raised"
    /\ steps[2].append = "ok"
    /\ NewEntries = <<steps[2].lang>>

----------------------------------------------------------------------------
(* C2 as stated: at the end of a run, every language whose generation call
   succeeded (its file write included) has its output file and exactly one
   new completion-log entry. *)
C2_Original ==
    (RunEnded /\ script \in QueueScripts) =>
        \A i \in 1..Len(steps) :
            (steps[i].gen = "ok" /\ steps[i].write # "raised") =>
                /\ OutPath(steps[i].lang) \in DOMAIN files
                /\ Count(NewEntries, steps[i].lang) = 1

(* C2 amended: at the end of a run, for every batch position whose generation
   call and file write both succeeded, the file exists at the language's path
   (holding that text when no later position rewrote the path); the log has
   gained exactly one entry per position whose append did not raise, and none
   in a MOCK_MODE run of generate_chapters.py; only paths of processed
   languages changed. *)
C2_OneFileOneEntry ==
    (RunEnded /\ script \in QueueScripts) =>
        /\ \A i \in 1..Len(steps) :
              (steps[i].gen = "ok" /\ steps[i].write = "ok") =>
                  /\ OutPath(steps[i].lang) \in DOMAIN files
                  /\ (\A j \in (i + 1)..Len(steps) : steps[j].lang # steps[i].lang)
                        => files[OutPath(steps[i].lang)] = steps[i].text
                  /\ IF MockChapters THEN steps[i].append = "none"
                                     ELSE steps[i].append \in {"ok", "raised"}
        /\ \A L \in Langs :
              Count(NewEntries, L) =
                  Cardinality({i \in StepsOf(L) : steps[i].gen = "ok" /\ steps[i].write = "ok"
                                                   /\ steps[i].append # "raised"
                                                   /\ ~MockChapters})
        /\ \A p \in DOMAIN files :
              (p \notin DOMAIN files0 \/ files[p] # files0[p])
                  => \E i \in 1..Len(steps) : p = OutPath(steps[i].lang)

(* a non-mock run that generated, wrote and appended one language *)
C2_Witness ==
    /\ RunEnded
    /\ script \in QueueScripts
    /\ ~MockChapters
    /\ Len(steps) >= 1
    /\ steps[1].gen = "ok" /\ steps[1].write = "ok" /\ steps[1].append = "ok"
    /\ files[OutPath(steps[1].lang)] = steps[1].text
    /\ Count(NewEntries, steps[1].lang) = 1

----------------------------------------------------------------------------
(* C3: queue selection never skips an eligible item: when some listed
   language is not completed, pick_next and pick_next_language return a
   non-empty selection that starts with the earliest such language and
   contains no completed language; the selection a run makes is that one. *)
C3_NeverSkipsEligible ==
    /\ LET c == read_list(completedLog)
           e == Eligible(languages, c)
           r == pick_next(languages, c)
       IN  e # {} =>
              /\ r # <<>>
              /\ r[1] = languages[MinOf(e)]
              /\ \A j \in 1..Len(r) : r[j] \notin c
              /\ pick_next_language(languages, completedLog) = languages[MinOf(e)]
    /\ LET c0 == read_list(log0)
           e0 == Eligible(languages, c0)
       IN  (picked /\ e0 # {}) =>
              /\ batch # <<>>
              /\ batch[1] = languages[MinOf(e0)]
              /\ \A j \in 1..Len(batch) : batch[j] \notin c0

(* a run that had to pass over a completed language to find the earliest eligible one *)
C3_Witness ==
    /\ picked
    /\ log0 # <<>>
    /\ batch # <<>>
    /\ languages[1] \in read_list(log0)
    /\ batch[1] # languages[1]

----------------------------------------------------------------------------
(* C4 as stated: pick_next returns at most 2 languages and a batch that
   contains a language outside SMALL_LANGUAGES has exactly one element. *)
C4_OnlySmallGrouped ==
    (picked /\ script = "generate.py") =>
        /\ Len(batch) <= 2
        /\ (\E j \in 1..Len(batch) : batch[j] \notin SMALL_LANGUAGES) => Len(batch) = 1

----------------------------------------------------------------------------
(* C5: queue selection is empty exactly when every listed language is
   completed (the empty list included), and a run with an empty selection
   makes no generation call, writes no file and appends nothing. *)
C5_EmptySelectionNoOp ==
    /\ LET c == read_list(completedLog)
       IN  /\ pick_next(languages, c) = <<>> <=> Eligible(languages, c) = {}
           /\ pick_next_language(languages, completedLog) = "" <=> Eligible(languages, c) = {}
    /\ picked => (batch = <<>> <=> Eligible(languages, read_list(log0)) = {})
    /\ (runs > 0 /\ batch = <<>>) =>
           /\ pc = "idle"
           /\ gens = 0
           /\ files = files0
           /\ completedLog = log0
           /\ steps = <<>>

(* a run that found every listed language completed and did nothing *)
C5_Witness ==
    /\ picked
    /\ languages # <<>>
    /\ batch = <<>>
    /\ pc = "idle"
    /\ exit \in {"return", "return0"}
    /\ completedLog = log0

----------------------------------------------------------------------------
(* The failures of one request to the provider.  class is what went wrong;
   exc and status are what requests raises (seen by post_with_retries);
   msg is str(e) (seen by call_model). *)

Fail(class, exc, status, msg) == [class |-> class, exc |-> exc, status |-> status, msg |-> msg]

HttpFailures == {
    Fail("http401", "HTTPError", 401, "401 Client Error: Unauthorized for url: https://host/models/m"),
    Fail("http403", "HTTPError", 403, "403 Client Error: Forbidden for url: https://host/models/m"),
    Fail("http404", "HTTPError", 404, "404 Client Error: Not Found for url: https://host/models/m"),
    Fail("http429", "HTTPError", 429, "429 Client Error: Too Many Requests for url: https://host/models/m"),
    Fail("http500", "HTTPError", 500, "500 Server Error: Internal Server Error for url: https://host/models/m"),
    Fail("http502", "HTTPError", 502, "502 Server Error: Bad Gateway for url: https://host/models/m"),
    Fail("http503", "HTTPError", 503, "503 Server Error: Service Unavailable for url: https://host/models/m") }

NetworkFailures == {
    Fail("timeout", "Timeout", 0, "HTTPSConnectionPool(host='host', port=443): Read timed out. (read timeout=30)"),
    Fail("connection", "ConnectionError", 0, "('Connection aborted.', RemoteDisconnected('Remote end closed connection without response'))") }

TlsFailures == {
    Fail("tls", "SSLError", 0, "[SSL: CERTIFICATE_VERIFY_FAILED] certificate verify failed (_ssl.c:1129)"),
    Fail("tls", "SSLError", 0, "HTTPSConnectionPool(host='host', port=443): Max retries exceeded with url: /m (Caused by SSLError(SSLCertVerificationError(1, 'certificate verify failed')))") }

(* any other RequestException of requests.post *)
OtherPostFailures == {
    Fail("other", "RequestException", 0, "Invalid URL 'host': No scheme supplied") }

(* the provider does not serve the text-generation task for the model *)
TaskFailures == {
    Fail("task", "ValueError", 0, "Model m is not supported for task text-generation. Supported task: conversational.") }

PostFailures == HttpFailures \cup NetworkFailures \cup TlsFailures \cup OtherPostFailures
CallFailures == HttpFailures \cup NetworkFailures \cup TlsFailures \cup TaskFailures

TransientClasses == {"http429", "http500", "http502", "http503", "timeout", "connection"}
FailFastClasses  == {"http401", "http403", "http404", "tls"}

----------------------------------------------------------------------------
(* groq_generate.py post_with_retries *)

BASE_BACKOFF == 20

(* the except clauses of lines 76-96: "break" leaves the loop, "sleep" falls
   through to the backoff of lines 98-102 *)
post_handler(f) ==
    CASE f.exc = "SSLError"                      -> "break"
      [] f.exc \in {"ConnectionError", "Timeout"} -> "sleep"
      [] f.exc = "HTTPError"                     ->
            IF 500 <= f.status /\ f.status < 600 THEN "sleep" ELSE "break"
      [] OTHER                                   -> "sleep"

(* post_backoff growing linearly *)
post_backoff_linear(att) == BASE_BACKOFF * att

(* line 98 *)
post_backoff(att) == BASE_BACKOFF * (2 ^ (att - 1))

(* lines 99-100: jitter = min(5 s, backoff * 0.1); the sleep is
   backoff + jitter * (0.5 - frac) with frac the fractional part of the clock,
   given here in halves *)
post_sleep_time(bo, halves) ==
    LET jitter == Min2(50, bo \div 10)
    IN  bo + (jitter * (1 - halves)) \div 2

(* PostAttempt that does not sleep after the last permitted attempt *)
PostAttempt_skips_last_sleep(o, halves) ==
    /\ fn = "post_with_retries"
    /\ rpc = "loop"
    /\ attempt < max_retries
    /\ attempt' = attempt + 1
    /\ requests' = requests + 1
    /\ failure' = o
    /\ IF o = NoFailure
       THEN /\ rpc' = "done"
            /\ result' = "response"
            /\ UNCHANGED <<backoff, sleeps, sleep_time, seen>>
       ELSE /\ seen' = seen \cup {o.class}
            /\ IF post_handler(o) = "break"
               THEN /\ rpc' = "done"
                    /\ result' = "None"
                    /\ UNCHANGED <<backoff, sleeps, sleep_time>>
               ELSE /\ backoff' = post_backoff(attempt')
                    /\ sleep_time' = IF attempt' < max_retries
                                     THEN post_sleep_time(backoff', halves) ELSE sleep_time
                    /\ sleeps' = IF attempt' < max_retries
                                 THEN Append(sleeps, [after |-> attempt', base |-> backoff'])
                                 ELSE sleeps
                    /\ rpc' = "loop"
                    /\ result' = result
    /\ UNCHANGED <<fn, max_retries, provider_mode, runVars, draftVars, polishVars, utilVars>>

(* one iteration of the while loop, lines 68-102 *)
PostAttempt(o, halves) ==
    /\ fn = "post_with_retries"
    /\ rpc = "loop"
    /\ attempt < max_retries
    /\ attempt' = attempt + 1
    /\ requests' = requests + 1
    /\ failure' = o
    /\ IF o = NoFailure
       THEN /\ rpc' = "done"
            /\ result' = "response"
            /\ UNCHANGED <<backoff, sleeps, sleep_time, seen>>
       ELSE /\ seen' = seen \cup {o.class}
            /\ IF post_handler(o) = "break"
               THEN /\ rpc' = "done"
                    /\ result' = "None"
                    /\ UNCHANGED <<backoff, sleeps, sleep_time>>
               ELSE /\ backoff' = post_backoff(attempt')
                    /\ sleep_time' = post_sleep_time(backoff', halves)
                    /\ sleeps' = Append(sleeps, [after |-> attempt', base |-> backoff'])
                    /\ rpc' = "loop"
                    /\ result' = result
    /\ UNCHANGED <<fn, max_retries, provider_mode, runVars, draftVars, polishVars, utilVars>>

(* the loop condition fails: lines 103-104 *)
PostExhausted ==
    /\ fn = "post_with_retries"
    /\ rpc = "loop"
    /\ ~(attempt < max_retries)
    /\ rpc' = "done"
    /\ result' = "None"
    /\ UNCHANGED <<fn, max_retries, attempt, backoff, provider_mode, requests, sleeps,
                   sleep_time, failure, seen, runVars, draftVars, polishVars, utilVars>>

----------------------------------------------------------------------------
(* generate_chapters.py call_model (MOCK_MODE off) *)

INITIAL_BACKOFF == 20

FatalTokens     == {"401", "repository not found", "invalid username", "permission", "forbidden"}
RateTokens      == {"rate", "limit", "429", "throttle", "retry", "quota"}
TransientTokens == {"timeout", "connection", "temporarily unavailable", "503", "service unavailable"}

(* any(tok in lower for tok in toks), lower = err_str.lower() *)
AnyTok(toks, err_str) == \E tok \in toks : InLower(tok, err_str)

(* the except clause of lines 344-362 applied to str(e) *)
call_handler(err_str) ==
    IF AnyTok(FatalTokens, err_str) THEN "raise"
    ELSE IF AnyTok(RateTokens, err_str) THEN "sleep"
    ELSE IF AnyTok(TransientTokens, err_str) THEN "sleep"
    ELSE "raise"

NoMethodError ==
    Fail("nomethod", "RuntimeError", 0,
         "No supported generation method succeeded. Tried: ['chat', 'conversational']")

(* the decision of the outer except clause for each exception that can reach it *)
call_decision == [f \in CallFailures \cup {NoMethodError} |-> call_handler(f.msg)]

(* lines 259-262: the inner except clause of client.text_generation sets
   resp = None (TRUE) or re-raises (FALSE) *)
text_generation_unsupported == [f \in CallFailures |-> InLower("conversational", f.msg)]

(* lines 243-291: the exception, if any, that leaves the try body.
   primary is the outcome of client.text_generation, fallback says whether one
   of chat / conversational / generate returned a response *)
attempt_outcome(mode, primary, fallback) ==
    LET toFallback == IF fallback THEN NoFailure ELSE NoMethodError
    IN  IF mode # "conversational"
        THEN IF primary = NoFailure THEN NoFailure
             ELSE IF text_generation_unsupported[primary] THEN toFallback
             ELSE primary
        ELSE toFallback

(* the client calls made by the try body *)
attempt_requests(mode, primary, fallbackCalls) ==
    IF mode # "conversational"
    THEN IF primary # NoFailure /\ text_generation_unsupported[primary]
         THEN 1 + fallbackCalls ELSE 1
    ELSE fallbackCalls

ProviderModes == {"text-generation", "conversational", "unknown"}

(* lines 233-237: probe_provider_support sends up to three tiny requests, or
   none when the model metadata names the pipeline *)
CallProbe(mode, probes) ==
    /\ fn = "call_model"
    /\ rpc = "start"
    /\ \/ mode = "text-generation" /\ probes \in {0, 1}
       \/ mode = "conversational" /\ probes \in 0..3
       \/ mode = "unknown" /\ probes \in 1..3
    /\ provider_mode' = mode
    /\ requests' = probes
    /\ backoff' = INITIAL_BACKOFF
    /\ rpc' = "loop"
    /\ UNCHANGED <<fn, max_retries, attempt, sleeps, sleep_time, failure, seen, result,
                   runVars, draftVars, polishVars, utilVars>>

(* one iteration of the for loop, lines 238-362; jitter is random.random() *)
CallAttempt(primary, fallback, fallbackCalls, jitter) ==
    /\ fn = "call_model"
    /\ rpc = "loop"
    /\ attempt < max_retries
    /\ attempt' = attempt + 1
    /\ requests' = requests + attempt_requests(provider_mode, primary, fallbackCalls)
    /\ LET e == attempt_outcome(provider_mode, primary, fallback)
       IN  /\ failure' = e
           /\ IF e = NoFailure
              THEN /\ rpc' = "done"
                   /\ result' = "content"
                   /\ UNCHANGED <<backoff, sleeps, sleep_time, seen>>
              ELSE /\ seen' = seen \cup {e.class}
                   /\ IF call_decision[e] = "raise"
                      THEN /\ rpc' = "done"
                           /\ result' = "raised"
                           /\ UNCHANGED <<backoff, sleeps, sleep_time>>
                      ELSE /\ sleep_time' = backoff + jitter
                           /\ sleeps' = Append(sleeps, [after |-> attempt', base |-> backoff])
                           /\ backoff' = backoff * 2
                           /\ rpc' = "loop"
                           /\ result' = result
    /\ UNCHANGED <<fn, max_retries, provider_mode, runVars, draftVars, polishVars, utilVars>>

(* CallExhausted returning an empty chapter instead of raising *)
CallExhausted_returns_content ==
    /\ fn = "call_model"
    /\ rpc = "loop"
    /\ ~(attempt < max_retries)
    /\ rpc' = "done"
    /\ result' = "content"
    /\ UNCHANGED <<fn, max_retries, attempt, backoff, provider_mode, requests, sleeps,
                   sleep_time, failure, seen, runVars, draftVars, polishVars, utilVars>>

(* the range is used up: line 364 *)
CallExhausted ==
    /\ fn = "call_model"
    /\ rpc = "loop"
    /\ ~(attempt < max_retries)
    /\ rpc' = "done"
    /\ result' = "RuntimeError: Max retries reached while calling model"
    /\ UNCHANGED <<fn, max_retries, attempt, backoff, provider_mode, requests, sleeps,
                   sleep_time, failure, seen, runVars, draftVars, polishVars, utilVars>>

----------------------------------------------------------------------------
(* One provider call, for every max_retries / MAX_RETRIES up to the bound *)

InitRetry ==
    /\ script = "generate.py"
    /\ languages = <<>>
    /\ RunIdle
    /\ DraftIdle
    /\ PolishIdle
    /\ UtilIdle
    /\ fn \in {"post_with_retries", "call_model"}
    /\ max_retries \in 0..MaxRetriesBound
    /\ rpc = IF fn = "post_with_retries" THEN "loop" ELSE "start"
    /\ attempt = 0
    /\ backoff = 0
    /\ provider_mode = "none"
    /\ requests = 0
    /\ sleeps = <<>>
    /\ sleep_time = 0
    /\ failure = NoFailure
    /\ seen = {}
    /\ result = "none"

NextRetry ==
    \/ \E o \in PostFailures \cup {NoFailure}, halves \in 0..2 : PostAttempt(o, halves)
    \/ PostExhausted
    \/ \E mode \in ProviderModes, probes \in 0..3 : CallProbe(mode, probes)
    \/ \E primary \in CallFailures \cup {NoFailure}, fallback \in BOOLEAN,
          fallbackCalls \in 1..3, jitter \in {0, 9} :
            CallAttempt(primary, fallback, fallbackCalls, jitter)
    \/ CallExhausted

SpecRetry == InitRetry /\ [][NextRetry]_vars /\ WF_vars(NextRetry)

RetryTypeOK ==
    /\ rpc \in {"start", "loop", "done"}
    /\ attempt \in 0..MaxRetriesBound
    /\ result \in {"none", "response", "None", "content", "raised",
                   "RuntimeError: Max retries reached while calling model"}

----------------------------------------------------------------------------
(* Observations of a provider call *)

LastAttemptFailed == attempt >= 1 /\ failure # NoFailure

(* the last attempt was followed by a backoff sleep *)
SleptAfterLast == sleeps # <<>> /\ sleeps[Len(sleeps)].after = attempt

(* the loop ended because no attempt is left *)
Exhausted == rpc = "done" /\ (attempt = 0 \/ (LastAttemptFailed /\ SleptAfterLast))

InitialBackoff == IF fn = "post_with_retries" THEN BASE_BACKOFF ELSE INITIAL_BACKOFF

----------------------------------------------------------------------------
(* C6 as stated: in post_with_retries, whenever an attempt fails with HTTP
   429, 500, 502 or 503, a timeout or a connection error and fewer than
   max_retries attempts have been made, a backoff sleep follows and another
   POST attempt is due. *)
C6_PostRetriesTransient ==
    (fn = "post_with_retries" /\ LastAttemptFailed
        /\ failure.class \in TransientClasses /\ attempt < max_retries)
    => (rpc = "loop" /\ SleptAfterLast)

----------------------------------------------------------------------------
(* C7 as stated: in call_model, whenever an attempt raises an HTTP 429, 500,
   502 or 503, a timeout or a connection error and fewer than MAX_RETRIES
   attempts have been made, the call sleeps for the current backoff plus
   jitter and makes another attempt instead of propagating the error. *)
C7_CallRetriesTransient ==
    (fn = "call_model" /\ LastAttemptFailed
        /\ failure.class \in TransientClasses /\ attempt < max_retries)
    => /\ rpc = "loop"
       /\ SleptAfterLast
       /\ sleep_time \in sleeps[Len(sleeps)].base .. (sleeps[Len(sleeps)].base + 9)

----------------------------------------------------------------------------
(* C8 as stated, in its core: when an attempt of post_with_retries or
   call_model fails with HTTP 401, 403 or 404 or with a TLS/SSL error, the
   call is over at once: no backoff sleep follows that attempt, no further
   attempt is due, and the failure has been handed to the caller (raised by
   call_model, the None of post_with_retries). *)
C8_FailFast ==
    (LastAttemptFailed /\ failure.class \in FailFastClasses)
    => /\ rpc = "done"
       /\ ~SleptAfterLast
       /\ result = (IF fn = "call_model" THEN "raised" ELSE "None")

----------------------------------------------------------------------------
(* C9: when every attempt so far returned HTTP 503, each of them was followed
   by a sleep whose base backoff is the initial backoff times 2^(n-1) for the
   n-th failed attempt, so the bases never decrease; the call ends only after
   exactly max_retries (MAX_RETRIES) attempts, with post_with_retries
   returning None and call_model raising the max-retries RuntimeError. *)
C9_Retry503 ==
    (seen = {"http503"} /\ LastAttemptFailed) =>
        /\ Len(sleeps) = attempt
        /\ \A n \in 1..Len(sleeps) :
              /\ sleeps[n].after = n
              /\ sleeps[n].base = InitialBackoff * (2 ^ (n - 1))
        /\ \A n \in 2..Len(sleeps) : sleeps[n].base >= sleeps[n - 1].base
        /\ attempt <= max_retries
        /\ rpc = "done" =>
              /\ attempt = max_retries
              /\ fn = "post_with_retries" => requests = max_retries /\ result = "None"
              /\ fn = "call_model" =>
                    result = "RuntimeError: Max retries reached while calling model"

(* three 503 answers in a row used up a budget of three attempts *)
C9_Witness ==
    /\ rpc = "done"
    /\ seen = {"http503"}
    /\ LastAttemptFailed
    /\ max_retries = 3
    /\ attempt = 3
    /\ sleeps[3].base = 4 * InitialBackoff

----------------------------------------------------------------------------
(* C10: every provider call ends after a bounded number of attempts whatever
   the responses: never more than max_retries attempts (for
   post_with_retries that many requests), at most one sleep per attempt; a
   call that used up its attempts returns None (post_with_retries) or raises
   RuntimeError('Max retries reached while calling model') (call_model); and,
   every request returning, the call does end. *)
C10_Bounded ==
    /\ attempt <= max_retries
    /\ Len(sleeps) <= attempt
    /\ fn = "post_with_retries" => requests = attempt
    /\ Exhausted =>
          /\ attempt = max_retries
          /\ result = (IF fn = "post_with_retries" THEN "None"
                       ELSE "RuntimeError: Max retries reached while calling model")
    /\ (rpc = "done" /\ fn = "post_with_retries") => result \in {"response", "None"}

(* C10: the bounds above hold in every state and the call reaches its end. *)
C10_Terminates == [](C10_Bounded) /\ <>(rpc = "done")

(* call_model gave up after failures of two different retried classes *)
C10_Witness ==
    /\ fn = "call_model"
    /\ Exhausted
    /\ max_retries >= 2
    /\ attempt = max_retries
    /\ Cardinality(seen) >= 2
    /\ result = "RuntimeError: Max retries reached while calling model"

----------------------------------------------------------------------------
(* groq_generate.py run_generation *)

MaxDraftLangs == 4   \* how many entries of LANGUAGES a run iterates over

LANGUAGES ==
    <<"Python", "C", "Java", "JavaScript", "PHP", "C#", "C++", "TypeScript",
      "Kotlin", "Go", "Swift", "Rust", "MATLAB", "R", "Ruby", "Perl", "Haskell",
      "Lua", "Objective-C", "Dart", "Bash">>

(* the entries of LANGUAGES the run iterates over *)
DraftLanguages == SubSeq(LANGUAGES, 1, Min2(MaxDraftLangs, Len(LANGUAGES)))

(* what post_with_retries returned: None, or a response whose body resp.json()
   parses to data, or fails to parse.  A parsed body is described by what
   the extraction code looks at:
     type     the JSON value is a dict / a list
     str_keys the keys among text, output, result, content that hold a string
     choices  "absent", "not_list" or "list"
     first    choices[0]: "missing" (empty list), "dict" or "str"
     text, message, output   the values of these keys of choices[0]:
              "none" (absent or null), "str" or "dict" *)
Body(type, str_keys, choices, first, text, message, output) ==
    [type |-> type, str_keys |-> str_keys, choices |-> choices, first |-> first,
     text |-> text, message |-> message, output |-> output]

JsonBodies ==
    { Body("dict", {"text"}, "absent", "missing", "none", "none", "none"),
      Body("dict", {"content"}, "absent", "missing", "none", "none", "none"),
      Body("dict", {}, "absent", "missing", "none", "none", "none"),
      Body("dict", {}, "not_list", "missing", "none", "none", "none"),
      Body("list", {}, "absent", "missing", "none", "none", "none"),
      Body("dict", {}, "list", "dict", "str", "none", "none"),
      Body("dict", {}, "list", "dict", "none", "none", "none"),
      Body("dict", {}, "list", "dict", "none", "dict", "none"),
      Body("dict", {}, "list", "str", "none", "none", "none"),
      Body("dict", {}, "list", "missing", "none", "none", "none") }

NoBody == Body("none", {}, "absent", "missing", "none", "none", "none")

Responses ==
    {[resp |-> "None", json |-> "none", data |-> NoBody],
     [resp |-> "Response", json |-> "invalid", data |-> NoBody]}
    \cup {[resp |-> "Response", json |-> "parsed", data |-> d] : d \in JsonBodies}

(* a or b, on the values "none" / "str" / "dict" *)
Or(a, b) == IF a # "none" THEN a ELSE b

(* lines 159-173: [raised |-> the exception that escapes, text |-> what text is bound to]
   text: "key" a string field of data, "choice" a string of choices[0],
         "dict" a dict of choices[0], "dump" the json.dumps fallback *)
extract_text(data) ==
    LET by_key == data.type = "dict" /\ data.str_keys # {}
    IN  IF by_key THEN [raised |-> "none", text |-> "key"]
        ELSE IF data.type = "dict" /\ data.choices = "list"
        THEN CASE data.first = "missing" -> [raised |-> "IndexError", text |-> "unbound"]
               [] data.first = "str"     -> [raised |-> "AttributeError", text |-> "unbound"]
               [] data.first = "dict"    ->
                    LET t == Or(Or(data.text, data.message), data.output)
                    IN  [raised |-> "none",
                         text |-> CASE t = "none" -> "dump"
                                    [] t = "str"  -> "choice"
                                    [] t = "dict" -> "dict"]
        ELSE [raised |-> "none", text |-> "dump"]

DraftFileKinds == {"example", "error"}

(* OUTPUT_DIR / lang / "drafts" / name, name = f"{lang.lower()}-example.md" or f"{lang.lower()}-error.txt" *)
DraftPaths ==
    [i \in 1..Len(DraftLanguages) |-> [k \in DraftFileKinds |->
        "output/" \o DraftLanguages[i] \o "/drafts/" \o Lower(DraftLanguages[i])
            \o (IF k = "example" THEN "-example.md" ELSE "-error.txt")]]

(* write_draft: open(path, "w") creates or truncates the file, f.write(body)
   raises TypeError when body is not a string *)
write_draft(fs, path, body) ==
    IF body = "dict" THEN WriteText(fs, path, "") ELSE WriteText(fs, path, body)

RunGenerationStart ==
    /\ g_pc = "idle"
    /\ g_exit = "none"
    /\ attempted' = <<>>
    /\ written' = <<>>
    /\ drafts' = drafts
    /\ IF Len(DraftLanguages) = 0
       THEN g_pc' = "idle" /\ g_exit' = "finished" /\ g_lang' = 0
       ELSE g_pc' = "loop" /\ g_exit' = "running" /\ g_lang' = 1
    /\ UNCHANGED <<pool_size, tasks, runVars, retryVars, polishVars, utilVars>>

(* "continue" / end of the for body *)
NextLanguage ==
    IF g_lang < Len(DraftLanguages)
    THEN g_pc' = "loop" /\ g_lang' = g_lang + 1 /\ g_exit' = g_exit
    ELSE g_pc' = "idle" /\ g_lang' = g_lang /\ g_exit' = "finished"

(* an exception leaves run_generation; __main__ logs it and calls sys.exit(1) *)
Unhandled ==
    g_pc' = "idle" /\ g_lang' = g_lang /\ g_exit' = "exit1"

(* lines 133-177: the body of the for loop for LANGUAGES[g_lang] *)
RunGenerationIteration(r) ==
    /\ g_pc = "loop"
    /\ attempted' = Append(attempted, DraftLanguages[g_lang])
    /\ LET lang == DraftLanguages[g_lang]
           err  == DraftPaths[g_lang]["error"]
           ex   == DraftPaths[g_lang]["example"]
           x    == extract_text(r.data)
       IN  IF r.resp = "None"
           THEN /\ drafts' = write_draft(drafts, err, "[ERR] Groq generation failed")
                /\ written' = Append(written, [lang |-> lang, name |-> err])
                /\ NextLanguage
           ELSE IF r.json = "invalid"
           THEN /\ drafts' = write_draft(drafts, err, "[ERR] Non-JSON response")
                /\ written' = Append(written, [lang |-> lang, name |-> err])
                /\ NextLanguage
           ELSE IF x.raised # "none"
           THEN /\ drafts' = drafts
                /\ written' = written
                /\ Unhandled
           ELSE /\ drafts' = write_draft(drafts, ex, x.text)
                /\ written' = Append(written, [lang |-> lang, name |-> ex])
                /\ IF x.text = "dict" THEN Unhandled ELSE NextLanguage
    /\ UNCHANGED <<pool_size, tasks, runVars, retryVars, polishVars, utilVars>>

(* gemini_polish.py: what a drafts/meta JSON file holds *)
Meta(language, slug_, estimated_tokens) ==
    [language |-> language, slug |-> slug_, estimated_tokens |-> estimated_tokens]

(* a tree that already holds one pending draft in the layout read_pending_drafts
   looks for: output/<lang>/drafts/<slug>.md and drafts/meta/<slug>.json *)
PendingDraftTree ==
    WriteText(WriteText(NoFiles, "output/Python/drafts/intro.md", "choice"),
              "output/Python/drafts/meta/intro.json", Meta("Python", "intro", 2000))

InitDraft ==
    /\ script = "generate.py"
    /\ languages = <<>>
    /\ RunIdle
    /\ RetryIdle
    /\ g_pc = "idle"
    /\ g_lang = 0
    /\ drafts \in {NoFiles, PendingDraftTree}
    /\ g_exit = "none"
    /\ attempted = <<>>
    /\ written = <<>>
    /\ pool_size = 0
    /\ tasks = <<>>
    /\ PolishIdle
    /\ UtilIdle

NextDraft ==
    \/ RunGenerationStart
    \/ \E r \in Responses : RunGenerationIteration(r)

SpecDraft == InitDraft /\ [][NextDraft]_vars

DraftTypeOK ==
    /\ g_pc \in {"idle", "loop"}
    /\ g_lang \in 0..Len(DraftLanguages)
    /\ g_exit \in {"none", "running", "finished", "exit1"}
    /\ Len(attempted) <= Len(DraftLanguages)
    /\ Len(written) <= Len(attempted)

(* the process of groq_generate.py has ended *)
DraftRunEnded == g_pc = "idle" /\ g_exit \in {"finished", "exit1"}

(* the files the run wrote for a language *)
WrittenFor(lang) == {i \in 1..Len(written) : written[i].lang = lang}

(* C11: in the drafting scripts a failure of one language never aborts the run
   for the other queued languages; in groq_generate.run_generation every
   language of LANGUAGES is attempted in order and gets exactly one file
   written, the draft or the placeholder error file, whatever happened to the
   earlier languages. *)
C11_EveryLanguageOneFile ==
    DraftRunEnded =>
        /\ attempted = DraftLanguages
        /\ \A i \in 1..Len(DraftLanguages) :
               Cardinality(WrittenFor(DraftLanguages[i])) = 1

----------------------------------------------------------------------------
(* gemini_polish.py *)

MaxItems == 3    \* most pending drafts found by read_pending_drafts

Max2(x, y) == IF x >= y THEN x ELSE y

(* lines 41-43: safety -1 margin *)
RPD_safe_without_margin == Max2(1, GEMINI_RPD)

RPD_safe == Max2(1, GEMINI_RPD - 1)
RPM_safe == Max2(1, GEMINI_RPM - 1)
TPM_safe == Max2(1, GEMINI_TPM - 1)

(* int(s) for the strings given to REQUESTS_PER_DAY_OVERRIDE:
   [ok |-> FALSE] stands for ValueError *)
RECURSIVE digits_value(_, _)
digits_value(s, acc) ==
    IF Len(s) = 0 THEN acc
    ELSE digits_value(SubSeq(s, 2, Len(s)), 10 * acc + IndexIn(CharAt(s, 1), DigitChars) - 1)

int(s) ==
    IF Len(s) > 0 /\ \A i \in 1..Len(s) : IndexIn(CharAt(s, i), DigitChars) # 0
    THEN [ok |-> TRUE, value |-> digits_value(s, 0)]
    ELSE [ok |-> FALSE, value |-> 0]

RECURSIVE SumSeq(_)
SumSeq(q) == IF Len(q) = 0 THEN 0 ELSE q[1] + SumSeq(Tail(q))

(* batch_items that yields the full batches only *)
batch_items_full_only(n, k) ==
    [j \in 1..(n \div k) |-> [i \in 1..k |-> (j - 1) * k + i]]

(* batch_items(items, k): the batches, as lists of positions in items *)
batch_items(n, k) ==
    [j \in 1..((n + k - 1) \div k) |->
        [i \in 1..(Min2(j * k, n) - (j - 1) * k) |-> (j - 1) * k + i]]

(* estimate_tokens_for_batch *)
estimate_tokens_for_batch(batch_) == SumSeq([i \in 1..Len(batch_) |-> items[batch_[i]]])

(* lines 165-167 of compute_effective_daily_requests *)
max_req_per_min_by_tpm(k, t) ==
    LET tokens_per_request == k * t
    IN  IF tokens_per_request > 0 THEN TPM_safe \div tokens_per_request ELSE RPM_safe

max_req_per_min(k, t) == Min2(RPM_safe, max_req_per_min_by_tpm(k, t))

compute_effective_daily_requests_without_daily_cap(k, t) ==
    max_req_per_min(k, t) * 60 * 24

compute_effective_daily_requests(k, t) ==
    LET daily_capacity_via_minute == max_req_per_min(k, t) * 60 * 24
    IN  Min2(RPD_safe, daily_capacity_via_minute)

(* what one pass of the try body of main does:
   stage  where an exception is raised: "none", "read" (build_polish_prompt),
          "call" (call_gemini), "extract" (extract_polished_texts) or
          "write" (write_polished, at the at-th item of the batch)
   msg    str(e) *)
Outcome(stage, msg, at) == [stage |-> stage, msg |-> msg, at |-> at]

Polished == Outcome("none", "", 0)

MissingToken == Outcome("call", "GOOGLE_ACCESS_TOKEN missing in environment.", 0)

PolishFailures ==
    { Outcome("read", "[Errno 2] No such file or directory: 'output/Lua/drafts/intro.md'", 0),
      Outcome("call", "Gemini API error 500: Internal error encountered.", 0),
      Outcome("call", "Gemini API error 429: Resource has been exhausted.", 0),
      Outcome("call", "Gemini API error 403: Quota exceeded for quota metric 'Generate requests'.", 0),
      Outcome("extract", "'str' object has no attribute 'get'", 0),
      Outcome("write", "[Errno 28] No space left on device", 1),
      Outcome("write", "[Errno 28] No space left on device", 2) }

PolishOutcomes == PolishFailures \cup {Polished}

(* the test of line 219 without the "quota" half *)
quota_like_429_only ==
    [o \in PolishFailures \cup {MissingToken} |-> Contains(o.msg, "429")]

(* line 219: "429" in str(e) or "quota" in str(e).lower() *)
quota_like ==
    [o \in PolishFailures \cup {MissingToken} |->
        Contains(o.msg, "429") \/ InLower("quota", o.msg)]

(* call_gemini raises before any request when the token is missing *)
raised(o) ==
    IF o.stage # "read" /\ ~GOOGLE_ACCESS_TOKEN THEN MissingToken ELSE o

OverrideChoices == {"", "0", "1", "2", "many"}
LimitChoices == {<<20, 5, 250000>>, <<3, 2, 100000>>, <<1, 0, 1>>}

(* the overrides explored with each triple of limits: every override with the
   default limits; with the other limits the unset override and the one that
   int() rejects, which both fall back on the limits *)
OverridesWith(l) ==
    IF l = <<20, 5, 250000>> THEN OverrideChoices
    ELSE IF l = <<3, 2, 100000>> THEN {"", "many"}
    ELSE {""}
TokenChoices == {2000, 70000}
BatchSizes == {1, 2}

(* the language and slug of the pending drafts, in the order of line 73 *)
PendingItems ==
    <<[lang |-> "Lua", slug |-> "intro"], [lang |-> "Lua", slug |-> "types"],
      [lang |-> "Zig", slug |-> "intro"], [lang |-> "Zig", slug |-> "types"],
      [lang |-> "python", slug |-> "intro"], [lang |-> "python", slug |-> "types"]>>

(* write_polished with the polished file put next to the draft *)
final_path_in_drafts(lang, slug_) == "output/" \o lang \o "/drafts/" \o slug_ \o ".md"

(* write_polished: OUTPUT_DIR / item["lang"] / "final" / f"{item['slug']}.md" *)
final_path(lang, slug_) == "output/" \o lang \o "/final/" \o slug_ \o ".md"

(* the paths of each pending item: its draft, its meta file and its polished file *)
ItemPaths ==
    [i \in 1..Len(PendingItems) |->
        LET it == PendingItems[i]
        IN  [draft |-> "output/" \o it.lang \o "/drafts/" \o it.slug \o ".md",
             meta  |-> "output/" \o it.lang \o "/drafts/meta/" \o it.slug \o ".json",
             final |-> final_path(it.lang, it.slug)]]

(* the seconds a run can last: a request that fails takes 0 or 1 second, a
   request that succeeds is followed by sleep(1.0) *)
Elapsed == {0, 1}
MaxTime == 2 * MaxItems

(* log_error: OUTPUT_DIR / "errors" / f"gemini-error-{int(time.time())}.json" *)
ErrorPaths ==
    [t \in 0..MaxTime |-> "output/errors/gemini-error-" \o ToString(1700000000 + t) \o ".json"]

(* the tree that holds the pending drafts whose estimated_tokens are toks *)
pending_tree(toks) ==
    [p \in {ItemPaths[i].draft : i \in 1..Len(toks)} \cup {ItemPaths[i].meta : i \in 1..Len(toks)} |->
        LET i == CHOOSE j \in 1..Len(toks) : p \in {ItemPaths[j].draft, ItemPaths[j].meta}
        IN  IF p = ItemPaths[i].draft THEN "draft"
            ELSE Meta(PendingItems[i].lang, PendingItems[i].slug, toks[i])]

InitPolish ==
    /\ script = "generate.py"
    /\ languages = <<>>
    /\ RunIdle
    /\ RetryIdle
    /\ DraftIdle
    /\ UtilIdle
    /\ \E l \in LimitChoices :
          /\ GEMINI_RPD = l[1] /\ GEMINI_RPM = l[2] /\ GEMINI_TPM = l[3]
          /\ REQUESTS_PER_DAY_OVERRIDE \in OverridesWith(l)
    /\ BATCH_SIZE \in BatchSizes
    /\ GOOGLE_ACCESS_TOKEN \in BOOLEAN
    /\ items \in SeqsUpTo(TokenChoices, MaxItems)
    /\ p_pc = "idle"
    /\ p_exit = "none"
    /\ t_avg = 0
    /\ requests_per_day_effective = 0
    /\ requests_allowed = 0
    /\ sent = 0
    /\ batch_no = 0
    /\ calls = 0
    /\ tried = <<>>
    /\ errors = <<>>
    /\ finals = {}
    /\ p_files = pending_tree(items)
    /\ now = 0

polishEnv == <<GEMINI_RPD, GEMINI_RPM, GEMINI_TPM, BATCH_SIZE,
               REQUESTS_PER_DAY_OVERRIDE, GOOGLE_ACCESS_TOKEN, items>>

(* batch_items for every number of pending drafts and every batch size *)
batch_table ==
    [n \in 0..MaxItems, k \in BatchSizes |-> batch_items(n, k)]

batches == batch_table[Len(items), BATCH_SIZE]

(* lines 172-196 *)
PolishStart ==
    /\ p_pc = "idle"
    /\ p_exit = "none"
    /\ IF Len(items) = 0
       THEN /\ p_pc' = "idle"
            /\ p_exit' = "return0"
            /\ UNCHANGED <<t_avg, requests_per_day_effective, requests_allowed, batch_no>>
       ELSE /\ p_pc' = "loop"
            /\ p_exit' = "running"
            /\ batch_no' = 1
            /\ IF REQUESTS_PER_DAY_OVERRIDE # ""
               THEN /\ t_avg' = t_avg
                    /\ requests_per_day_effective' =
                           IF int(REQUESTS_PER_DAY_OVERRIDE).ok
                           THEN int(REQUESTS_PER_DAY_OVERRIDE).value
                           ELSE RPD_safe
               ELSE LET sample == SubSeq(items, 1, Min2(10, Len(items)))
                    IN  /\ t_avg' = SumSeq(sample) \div Len(sample)
                        /\ requests_per_day_effective' =
                               compute_effective_daily_requests(BATCH_SIZE, t_avg')
            /\ requests_allowed' = Max2(1, requests_per_day_effective')
    /\ sent' = 0
    /\ UNCHANGED <<polishEnv, calls, tried, errors, finals, p_files, now, runVars, retryVars, draftVars, utilVars>>

(* "continue" / end of the for body *)
NextBatch ==
    IF batch_no < Len(batches)
    THEN p_pc' = "loop" /\ batch_no' = batch_no + 1 /\ p_exit' = p_exit
    ELSE p_pc' = "idle" /\ batch_no' = batch_no /\ p_exit' = "return0"

(* break, then lines 225-226 *)
BreakLoop == p_pc' = "idle" /\ batch_no' = batch_no /\ p_exit' = "return0"

(* lines 199-201 *)
PolishBudgetReached ==
    /\ p_pc = "loop"
    /\ sent >= requests_allowed
    /\ BreakLoop
    /\ UNCHANGED <<polishEnv, t_avg, requests_per_day_effective, requests_allowed,
                   sent, calls, tried, errors, finals, p_files, now, runVars, retryVars, draftVars, utilVars>>

(* write_polished(batch, polished_texts), stopped after the first n items *)
RECURSIVE write_polished(_, _, _)
write_polished(fs, batch_, n) ==
    IF n = 0 THEN fs
    ELSE LET it == PendingItems[batch_[n]]
         IN  WriteText(write_polished(fs, batch_, n - 1), final_path(it.lang, it.slug), "polished")

(* log_error(item_batch, err) called at second t *)
log_error(fs, batch_, err, t) ==
    WriteText(fs, ErrorPaths[t], [error |-> err, batch |-> batch_])

PolishBatch_stops_on_any_error(o) ==
    /\ p_pc = "loop"
    /\ sent < requests_allowed
    /\ LET whole == batches[batch_no]
           est_tokens == estimate_tokens_for_batch(whole)
           batch_ == IF est_tokens > TPM_safe \div Max2(1, RPM_safe)
                     THEN <<whole[1]>> ELSE whole
           e == raised(o)
       IN  /\ e.stage = "write" => e.at <= Len(batch_)
           /\ tried' = Append(tried, [batch |-> batch_no, raised |-> e])
           /\ calls' = IF e.stage # "read" /\ GOOGLE_ACCESS_TOKEN THEN calls + 1 ELSE calls
           /\ IF e.stage = "none"
              THEN /\ finals' = finals \cup {batch_[i] : i \in 1..Len(batch_)}
                   /\ p_files' = write_polished(p_files, batch_, Len(batch_))
                   /\ sent' = sent + 1
                   /\ errors' = errors
                   /\ \E d \in Elapsed : now' = now + d + 1
                   /\ NextBatch
              ELSE /\ finals' = finals \cup
                          (IF e.stage = "write" THEN {batch_[i] : i \in 1..(e.at - 1)} ELSE {})
                   /\ sent' = sent
                   /\ errors' = Append(errors, [error |-> e.msg, batch |-> batch_])
                   /\ \E d \in Elapsed :
                         /\ now' = now + d
                         /\ p_files' = log_error(
                                IF e.stage = "write"
                                THEN write_polished(p_files, batch_, e.at - 1) ELSE p_files,
                                batch_, e.msg, now')
                   /\ BreakLoop
    /\ UNCHANGED <<polishEnv, t_avg, requests_per_day_effective, requests_allowed,
                   runVars, retryVars, draftVars, utilVars>>

(* lines 202-223: one batch *)
PolishBatch(o) ==
    /\ p_pc = "loop"
    /\ sent < requests_allowed
    /\ LET whole == batches[batch_no]
           est_tokens == estimate_tokens_for_batch(whole)
           batch_ == IF est_tokens > TPM_safe \div Max2(1, RPM_safe)
                     THEN <<whole[1]>> ELSE whole
           e == raised(o)
       IN  /\ e.stage = "write" => e.at <= Len(batch_)
           /\ tried' = Append(tried, [batch |-> batch_no, raised |-> e])
           /\ calls' = IF e.stage # "read" /\ GOOGLE_ACCESS_TOKEN THEN calls + 1 ELSE calls
           /\ IF e.stage = "none"
              THEN /\ finals' = finals \cup {batch_[i] : i \in 1..Len(batch_)}
                   /\ p_files' = write_polished(p_files, batch_, Len(batch_))
                   /\ sent' = sent + 1
                   /\ errors' = errors
                   /\ \E d \in Elapsed : now' = now + d + 1
                   /\ NextBatch
              ELSE /\ finals' = finals \cup
                          (IF e.stage = "write" THEN {batch_[i] : i \in 1..(e.at - 1)} ELSE {})
                   /\ sent' = sent
                   /\ errors' = Append(errors, [error |-> e.msg, batch |-> batch_])
                   /\ \E d \in Elapsed :
                         /\ now' = now + d
                         /\ p_files' = log_error(
                                IF e.stage = "write"
                                THEN write_polished(p_files, batch_, e.at - 1) ELSE p_files,
                                batch_, e.msg, now')
                   /\ IF quota_like[e] THEN BreakLoop ELSE NextBatch
    /\ UNCHANGED <<polishEnv, t_avg, requests_per_day_effective, requests_allowed,
                   runVars, retryVars, draftVars, utilVars>>

NextPolish ==
    \/ PolishStart
    \/ PolishBudgetReached
    \/ \E o \in PolishOutcomes : PolishBatch(o)

SpecPolish == InitPolish /\ [][NextPolish]_vars

PolishTypeOK ==
    /\ p_pc \in {"idle", "loop"}
    /\ p_exit \in {"none", "running", "return0"}
    /\ sent \in 0..Len(batches)
    /\ calls \in 0..Len(batches)
    /\ batch_no \in 0..Len(batches)
    /\ Len(tried) <= Len(batches)
    /\ finals \subseteq 1..Len(items)
    /\ now \in 0..MaxTime

(* main has returned *)
PolishRunEnded == p_pc = "idle" /\ p_exit = "return0"

(* the run stopped at a batch that raised a quota-like exception *)
StoppedOnQuota ==
    /\ tried # <<>>
    /\ tried[Len(tried)].raised.stage # "none"
    /\ quota_like[tried[Len(tried)].raised]

----------------------------------------------------------------------------
(* C12 as stated: a failure of one batch never aborts the polishing run for
   the other queued batches: whatever exception a batch raised, when main
   returns every batch was attempted unless the request budget was used up. *)
C12_Original ==
    PolishRunEnded =>
        \/ Len(tried) = Len(batches)
        \/ sent >= requests_allowed

(* C12: a batch that raises an exception whose text contains neither "429"
   nor "quota" never aborts the polishing run: the next batch is attempted in
   the same run; only a quota-like exception (or the used-up budget) ends the
   run before the last batch. *)
C12_OtherBatchesAttempted ==
    PolishRunEnded =>
        /\ \/ Len(tried) = Len(batches)
           \/ sent >= requests_allowed
           \/ StoppedOnQuota
        /\ \A j \in 1..Len(tried) :
              LET t == tried[j]
              IN  /\ t.batch = j
                  /\ (t.raised.stage # "none" /\ t.batch < Len(batches)) =>
                        IF quota_like[t.raised]
                        THEN j = Len(tried)
                        ELSE j < Len(tried) /\ tried[j + 1].batch = t.batch + 1

(* a batch raised a non-quota exception and the next batch was attempted *)
C12_Witness ==
    /\ PolishRunEnded
    /\ \E j \in 1..(Len(tried) - 1) :
          /\ tried[j].raised.stage \in {"read", "call", "extract", "write"}
          /\ ~quota_like[tried[j].raised]
          /\ tried[j + 1].raised.stage = "none"

(* C13: in one run of main the number of requests issued to the provider
   never exceeds the effective request budget, whatever drafts are pending
   and whichever calls fail.  The budget is read as main applies it, with its
   floor of one request (line 194). *)
C13_WithinBudget ==
    p_exit # "none" => calls <= Max2(1, requests_per_day_effective)

(* C14: compute_effective_daily_requests(k, t_avg) equals
   min(RPD_safe, min(RPM_safe, TPM_safe // (k * t_avg)) * 60 * 24) for positive
   k and t_avg, never exceeds RPD_safe, and for RPD=20, RPM=5, TPM=250000,
   k=1, t_avg=2000 the cap by tokens is 124, bounded to 4, and the result 19. *)
C14_EffectiveBudget ==
    (p_exit # "none" /\ REQUESTS_PER_DAY_OVERRIDE = "" /\ BATCH_SIZE > 0 /\ t_avg > 0) =>
        /\ requests_per_day_effective =
              Min2(RPD_safe,
                   Min2(RPM_safe, TPM_safe \div (BATCH_SIZE * t_avg)) * 60 * 24)
        /\ requests_per_day_effective <= RPD_safe
        /\ (/\ GEMINI_RPD = 20 /\ GEMINI_RPM = 5 /\ GEMINI_TPM = 250000
            /\ BATCH_SIZE = 1 /\ t_avg = 2000) =>
               /\ max_req_per_min_by_tpm(BATCH_SIZE, t_avg) = 124
               /\ max_req_per_min(BATCH_SIZE, t_avg) = 4
               /\ requests_per_day_effective = 19

(* main computed the budget of the example of the claim *)
C14_Witness ==
    /\ p_exit # "none"
    /\ REQUESTS_PER_DAY_OVERRIDE = ""
    /\ GEMINI_RPD = 20 /\ GEMINI_RPM = 5 /\ GEMINI_TPM = 250000
    /\ BATCH_SIZE = 1
    /\ t_avg = 2000
    /\ requests_per_day_effective = 19

(* C15 as stated: each safe limit is exactly the provider limit minus one,
   hence strictly below it, for every configured limit. *)
C15_Original ==
    /\ RPD_safe = GEMINI_RPD - 1 /\ RPD_safe < GEMINI_RPD
    /\ RPM_safe = GEMINI_RPM - 1 /\ RPM_safe < GEMINI_RPM
    /\ TPM_safe = GEMINI_TPM - 1 /\ TPM_safe < GEMINI_TPM

SafeOf(limit) == IF limit >= 2 THEN limit - 1 ELSE 1

(* C15: each safe limit is the provider limit minus one, strictly below it,
   when the limit is at least 2, and is 1 when the limit is below 2. *)
C15_SafetyMargin ==
    /\ RPD_safe = SafeOf(GEMINI_RPD) /\ (GEMINI_RPD >= 2 => RPD_safe < GEMINI_RPD)
    /\ RPM_safe = SafeOf(GEMINI_RPM) /\ (GEMINI_RPM >= 2 => RPM_safe < GEMINI_RPM)
    /\ TPM_safe = SafeOf(GEMINI_TPM) /\ (GEMINI_TPM >= 2 => TPM_safe < GEMINI_TPM)
    /\ (p_exit # "none" /\ REQUESTS_PER_DAY_OVERRIDE = "" /\ Len(items) > 0) =>
           requests_per_day_effective <= SafeOf(GEMINI_RPD)

(* a run used limits above the floor: the budget is below the daily limit *)
C15_Witness ==
    /\ p_exit # "none"
    /\ Len(items) > 0
    /\ REQUESTS_PER_DAY_OVERRIDE = ""
    /\ GEMINI_RPD >= 2 /\ GEMINI_RPM >= 2 /\ GEMINI_TPM >= 2
    /\ requests_per_day_effective = GEMINI_RPD - 1

----------------------------------------------------------------------------
(* Runs of generate.py and generate_chapters.py across a crash *)

(* generate.py groups the two entries: a small language immediately followed
   by its own name in the language list *)
QueueRepeats ==
    /\ script = "generate.py"
    /\ \E i \in 1..(Len(languages) - 1) :
          languages[i] \in SMALL_LANGUAGES /\ languages[i + 1] = languages[i]

(* the paths the running script can write for a language *)
PathsOf(L) == {OutPaths[script][L][t] : t \in Titles \cup {""}}

(* the run ended and its i-th batch item was generated and written and its
   append, if reached, did not raise *)
ItemSucceeded(i) ==
    /\ RunEnded
    /\ steps[i].gen = "ok" /\ steps[i].write = "ok" /\ steps[i].append # "raised"

(* what holds of the language L whose run was killed between write and
   append: in the state the crash leaves, and in the next run, once it has
   passed its configuration checks and evaluated the queue *)
CrashSafe(L) ==
    /\ exit = "crashed" =>
          /\ L \notin read_list(completedLog)
          /\ OutPath(L) \in DOMAIN files
    /\ (exit # "crashed" /\ force = "" /\ picked) =>
          /\ L \notin read_list(log0)
          /\ OutPath(L) \in DOMAIN files0
          /\ \E k \in 1..Len(batch) : batch[k] = L
          /\ \A i \in 1..Len(steps) :
                (steps[i].lang = L /\ ItemSucceeded(i)) =>
                    /\ files[OutPath(L)] = steps[i].text
                    /\ PathsOf(L) \cap DOMAIN files = {OutPath(L)}
                    /\ Count(completedLog, L) = 1

(* C16 as stated: a run without override that is killed after writing the
   output file and before the log append leaves the language unmarked; the
   next run without override selects the same language, overwrites the same
   path, and once it succeeds there is one output file and one log entry for
   the language. *)
C16_Original ==
    (script \in QueueScripts /\ prev # NoCrash /\ prev.force = "") => CrashSafe(prev.lang)

(* C16: the same, for a re-run that is not in MOCK_MODE and a language list
   in which generate.py finds no small language immediately followed by its
   own name. *)
C16_CrashBeforeAppendIsSafe ==
    (/\ script \in QueueScripts /\ prev # NoCrash /\ prev.force = ""
     /\ ~QueueRepeats
     /\ exit # "crashed" => ~mock) => CrashSafe(prev.lang)

(* the re-run after such a crash has succeeded *)
C16_Witness ==
    /\ script \in QueueScripts
    /\ prev # NoCrash /\ prev.force = "" /\ force = "" /\ ~mock /\ picked
    /\ ~QueueRepeats
    /\ \E i \in 1..Len(steps) :
          /\ steps[i].lang = prev.lang
          /\ ItemSucceeded(i)
          /\ steps[i].append = "ok"
    /\ files0[OutPath(prev.lang)] # files[OutPath(prev.lang)]
    /\ Count(completedLog, prev.lang) = 1

----------------------------------------------------------------------------
(* C17 as stated: when no run had a language override, each language appears
   at most once in the completion log, for every language list. *)
C17_Original ==
    normal => \A L \in Langs : Count(completedLog, L) <= 1

(* C17: when no run had a language override, each language appears at most
   once in the completion log, for every language list of generate_chapters.py
   and every language list of generate.py in which no small language is
   immediately followed by its own name. *)
C17_AtMostOnce ==
    (normal /\ ~QueueRepeats) => \A L \in Langs : Count(completedLog, L) <= 1

(* two normal runs over a list that names a language twice logged it once *)
C17_Witness ==
    /\ normal
    /\ ~QueueRepeats
    /\ runs = 2
    /\ RunEnded
    /\ \E i, j \in 1..Len(languages) :
          /\ i < j
          /\ languages[i] = languages[j]
          /\ Count(completedLog, languages[i]) = 1
          /\ Len(completedLog) >= 2

----------------------------------------------------------------------------
(* C18: the completion log is append-only: in every state the log the run
   started with is a prefix of the log, and every step of every run, whatever
   its outcome, leaves the previous log as a prefix of the new one. *)
C18_AppendOnly ==
    [](IsPrefix(log0, completedLog)) /\ [][IsPrefix(completedLog, completedLog')]_vars

(* a second run has extended a non-empty log *)
C18_Witness ==
    /\ runs = 2
    /\ log0 # <<>>
    /\ Len(completedLog) > Len(log0)
    /\ SubSeq(completedLog, 1, Len(log0)) = log0

----------------------------------------------------------------------------
(* C19: the output path depends on (language, chapter title) only and a write
   replaces the file wholesale: the tree holds files at paths of the path
   table only; the tree changes only in the write step of a run; and after a
   successful write step for the language at hand the file at its path holds
   exactly the text just generated (nothing of the earlier content remains),
   no other path was created and every other file is unchanged. *)
C19_PathsOfTable ==
    DOMAIN files \subseteq UNION {PathsOf(L) : L \in Langs}

C19_WriteStep ==
    /\ files' # files => (pc = "write" /\ steps' # steps)
    /\ (pc = "write" /\ steps' # steps) =>
          LET path == OutPath(batch[idx])
          IN  /\ DOMAIN files' \subseteq DOMAIN files \cup {path}
              /\ \A p \in DOMAIN files \ {path} : p \in DOMAIN files' /\ files'[p] = files[p]
              /\ steps'[Len(steps')].write = "ok" =>
                    /\ path \in DOMAIN files'
                    /\ files'[path] = content
                    /\ content = steps'[Len(steps')].text

C19_OverwriteWholesale == [](C19_PathsOfTable) /\ [][C19_WriteStep]_vars

(* a second run has replaced the text of an existing file and left another file alone *)
C19_Witness ==
    /\ runs = 2
    /\ steps # <<>>
    /\ steps[Len(steps)].write = "ok"
    /\ LET path == OutPath(steps[Len(steps)].lang)
       IN  /\ path \in DOMAIN files0
           /\ files0[path] # 0
           /\ files[path] = steps[Len(steps)].text
           /\ files[path] # files0[path]
           /\ \E p \in DOMAIN files0 : p # path /\ files[p] = files0[p]

----------------------------------------------------------------------------
(* C20: a configuration error is fatal before any work; for gemini_polish.py:
   when GOOGLE_ACCESS_TOKEN is missing and drafts are pending, the process
   exits non-zero without any provider call and without writing any output
   or error file. *)
C20_ConfigErrorFatal ==
    (~GOOGLE_ACCESS_TOKEN /\ Len(items) > 0 /\ p_exit # "none") =>
        /\ calls = 0
        /\ finals = {}
        /\ errors = <<>>
        /\ p_exit # "return0"

----------------------------------------------------------------------------
(* The hand-over of drafts from groq_generate.py to gemini_polish.py *)

EndsWith(s, suffix) ==
    Len(s) >= Len(suffix) /\ SubSeq(s, Len(s) - Len(suffix) + 1, Len(s)) = suffix

(* position of the last "/" of a path, 0 when there is none *)
LastSlash(p) ==
    IF \E i \in 1..Len(p) : CharAt(p, i) = "/"
    THEN CHOOSE i \in 1..Len(p) :
             CharAt(p, i) = "/" /\ \A j \in (i + 1)..Len(p) : CharAt(p, j) # "/"
    ELSE 0

(* Path.parent *)
parent(p) == SubSeq(p, 1, LastSlash(p) - 1)

(* every path the trees of the drafting and the polishing script can hold *)
KnownPaths ==
    DOMAIN PendingDraftTree
        \cup {DraftPaths[i][k] : i \in 1..Len(DraftLanguages), k \in DraftFileKinds}
        \cup {ItemPaths[i][k] : i \in 1..Len(PendingItems), k \in {"draft", "meta", "final"}}
        \cup {ErrorPaths[t] : t \in 0..MaxTime}

(* OUTPUT_DIR.glob("**/drafts/meta/*.json") *)
is_meta_path ==
    [p \in KnownPaths |->
        /\ EndsWith(p, ".json")
        /\ EndsWith(parent(p), "/drafts/meta")
        /\ SubSeq(p, 1, Len("output/")) = "output/"]

(* m.parent.parent / f"{slug}.md" *)
draft_path_of(m, slug_) == parent(parent(m)) \o "/" \o slug_ \o ".md"

(* read_pending_drafts, as the set of its items (line 73 sorts them) *)
read_pending_drafts(fs) ==
    LET metas == {m \in DOMAIN fs : is_meta_path[m]}
    IN  { [lang |-> fs[m].language, slug |-> fs[m].slug,
           draft |-> draft_path_of(m, fs[m].slug),
           estimated_tokens |-> fs[m].estimated_tokens, meta |-> m] :
          m \in {x \in metas : draft_path_of(x, fs[x].slug) \in DOMAIN fs} }

(* C21: drafts are handed over through the filesystem; every draft Markdown
   file written by run_generation has a sibling drafts/meta/<slug>.json, so a
   following read_pending_drafts returns an item for every successfully
   drafted language. *)
C21_DraftsHandedOver ==
    DraftRunEnded =>
        \A i \in 1..Len(written) :
            EndsWith(written[i].name, "-example.md") =>
                \E it \in read_pending_drafts(drafts) :
                    /\ it.draft = written[i].name
                    /\ it.lang = written[i].lang
                    /\ it.meta \in DOMAIN drafts

----------------------------------------------------------------------------
(* groq_generate.py: the languages drafted by a pool of workers.  Each worker
   runs the body of the for loop of run_generation for one language; a worker
   that raises ends its own task only. *)

MaxPoolLangs == 3    \* how many entries of LANGUAGES are given to the pool

MAX_WORKERS == 4     \* default size of the pool

PoolSizes == {1, 2, MAX_WORKERS}

PoolLanguages == SubSeq(DraftLanguages, 1, Min2(MaxPoolLangs, Len(DraftLanguages)))

(* the answers of the provider explored for the pool *)
PoolResponses ==
    {[resp |-> "None", json |-> "none", data |-> NoBody],
     [resp |-> "Response", json |-> "invalid", data |-> NoBody]}
    \cup {[resp |-> "Response", json |-> "parsed", data |-> d] :
              d \in { Body("dict", {"text"}, "absent", "missing", "none", "none", "none"),
                      Body("dict", {}, "list", "dict", "none", "dict", "none"),
                      Body("dict", {}, "list", "missing", "none", "none", "none") }}

NoResponse == [resp |-> "none", json |-> "none", data |-> NoBody]

(* lines 145-176 for the language at position i and the answer r:
   the call of write_draft that is reached, or the exception raised before it *)
draft_call(i, r) ==
    LET x == extract_text(r.data)
    IN  IF r.resp = "None"
        THEN [raised |-> "none", path |-> DraftPaths[i]["error"],
              body |-> "[ERR] Groq generation failed"]
        ELSE IF r.json = "invalid"
        THEN [raised |-> "none", path |-> DraftPaths[i]["error"],
              body |-> "[ERR] Non-JSON response"]
        ELSE IF x.raised # "none"
        THEN [raised |-> x.raised, path |-> "", body |-> ""]
        ELSE [raised |-> "none", path |-> DraftPaths[i]["example"], body |-> x.text]

(* the tree the for loop of run_generation leaves, entered at position i,
   when the provider gives answers[i] for the i-th language *)
RECURSIVE run_generation_files(_, _, _)
run_generation_files(fs, answers, i) ==
    IF i > Len(answers) THEN fs
    ELSE LET c == draft_call(i, answers[i])
         IN  IF c.raised # "none" THEN fs
             ELSE IF c.body = "dict" THEN write_draft(fs, c.path, c.body)
             ELSE run_generation_files(write_draft(fs, c.path, c.body), answers, i + 1)

Running == {i \in 1..Len(tasks) : tasks[i].pc \in {"post", "write", "opened"}}

PoolStart(n) ==
    /\ g_pc = "idle"
    /\ g_exit = "none"
    /\ g_pc' = "pool"
    /\ g_exit' = "running"
    /\ pool_size' = n
    /\ tasks' = [i \in 1..Len(PoolLanguages) |-> [pc |-> "queued", resp |-> NoResponse]]
    /\ UNCHANGED <<g_lang, drafts, attempted, written, runVars, retryVars, polishVars, utilVars>>

(* a free worker takes the next language of the queue *)
TaskStart(i) ==
    /\ g_pc = "pool"
    /\ i \in 1..Len(tasks)
    /\ tasks[i].pc = "queued"
    /\ \A j \in 1..(i - 1) : tasks[j].pc # "queued"
    /\ Cardinality(Running) < pool_size
    /\ tasks' = [tasks EXCEPT ![i].pc = "post"]
    /\ UNCHANGED <<g_pc, g_exit, pool_size, g_lang, drafts, attempted, written,
                   runVars, retryVars, polishVars, utilVars>>

(* lines 144-175: the provider answered r *)
TaskPost(i, r) ==
    /\ g_pc = "pool"
    /\ i \in 1..Len(tasks)
    /\ tasks[i].pc = "post"
    /\ tasks' = [tasks EXCEPT ![i] =
                    [pc |-> IF draft_call(i, r).raised # "none" THEN "failed" ELSE "write",
                     resp |-> r]]
    /\ UNCHANGED <<g_pc, g_exit, pool_size, g_lang, drafts, attempted, written,
                   runVars, retryVars, polishVars, utilVars>>

(* write_draft line 111: open(path, "w") creates or truncates the file *)
TaskOpen(i) ==
    /\ g_pc = "pool"
    /\ i \in 1..Len(tasks)
    /\ tasks[i].pc = "write"
    /\ drafts' = WriteText(drafts, draft_call(i, tasks[i].resp).path, "")
    /\ tasks' = [tasks EXCEPT ![i].pc = "opened"]
    /\ UNCHANGED <<g_pc, g_exit, pool_size, g_lang, attempted, written,
                   runVars, retryVars, polishVars, utilVars>>

(* write_draft line 112: f.write(body), TypeError for a body that is no string *)
TaskWrite(i) ==
    /\ g_pc = "pool"
    /\ i \in 1..Len(tasks)
    /\ tasks[i].pc = "opened"
    /\ LET c == draft_call(i, tasks[i].resp)
       IN  IF c.body = "dict"
           THEN /\ drafts' = drafts
                /\ tasks' = [tasks EXCEPT ![i].pc = "failed"]
           ELSE /\ drafts' = WriteText(drafts, c.path, c.body)
                /\ tasks' = [tasks EXCEPT ![i].pc = "done"]
    /\ UNCHANGED <<g_pc, g_exit, pool_size, g_lang, attempted, written,
                   runVars, retryVars, polishVars, utilVars>>

(* every task has ended *)
PoolEnd ==
    /\ g_pc = "pool"
    /\ \A i \in 1..Len(tasks) : tasks[i].pc \in {"done", "failed"}
    /\ g_pc' = "idle"
    /\ g_exit' = IF \E i \in 1..Len(tasks) : tasks[i].pc = "failed"
                 THEN "exit1" ELSE "finished"
    /\ UNCHANGED <<pool_size, tasks, g_lang, drafts, attempted, written,
                   runVars, retryVars, polishVars, utilVars>>

InitPool ==
    /\ script = "generate.py"
    /\ languages = <<>>
    /\ RunIdle
    /\ RetryIdle
    /\ DraftIdle
    /\ PolishIdle
    /\ UtilIdle

NextPool ==
    \/ \E n \in PoolSizes : PoolStart(n)
    \/ \E i \in 1..Len(PoolLanguages) : TaskStart(i)
    \/ \E i \in 1..Len(PoolLanguages), r \in PoolResponses : TaskPost(i, r)
    \/ \E i \in 1..Len(PoolLanguages) : TaskOpen(i)
    \/ \E i \in 1..Len(PoolLanguages) : TaskWrite(i)
    \/ PoolEnd

SpecPool == InitPool /\ [][NextPool]_vars

PoolTypeOK ==
    /\ g_pc \in {"idle", "pool"}
    /\ pool_size \in PoolSizes \cup {0}
    /\ Len(tasks) \in {0, Len(PoolLanguages)}
    /\ Cardinality(Running) <= pool_size

(* the paths write_draft can be given for each language of LANGUAGES *)
AllDraftPaths ==
    [i \in 1..Len(LANGUAGES) |-> [k \in DraftFileKinds |->
        "output/" \o LANGUAGES[i] \o "/drafts/" \o Lower(LANGUAGES[i])
            \o (IF k = "example" THEN "-example.md" ELSE "-error.txt")]]

(* for any two distinct languages the paths written by write_draft are distinct *)
C22_DistinctPaths ==
    \A i, j \in 1..Len(LANGUAGES) : \A k, l \in DraftFileKinds :
        i # j => AllDraftPaths[i][k] # AllDraftPaths[j][l]

(* no two workers have the same file open *)
C22_NoSharedFile ==
    \A i, j \in 1..Len(tasks) :
        (i # j /\ tasks[i].pc \in {"write", "opened"} /\ tasks[j].pc \in {"write", "opened"})
            => draft_call(i, tasks[i].resp).path # draft_call(j, tasks[j].resp).path

(* the pool has ended *)
PoolEnded == g_pc = "idle" /\ g_exit \in {"finished", "exit1"} /\ tasks # <<>>

(* C22: when the languages of LANGUAGES are drafted by concurrent workers no
   two workers ever write the same file: the paths of two distinct languages
   are distinct, and every interleaving of the workers ends with the same set
   of files as the sequential loop. *)
C22_PoolAsSequential ==
    /\ C22_DistinctPaths
    /\ C22_NoSharedFile
    /\ PoolEnded =>
           drafts = run_generation_files(NoFiles, [i \in 1..Len(tasks) |-> tasks[i].resp], 1)

----------------------------------------------------------------------------
(* slugify of generate_one_chapter.py and of gemini_polish.py *)

MaxSlugLen == 4     \* longest string given to slugify

SlugAlphabet == {"a", "B", "7", " ", "-", "é"}

RECURSIVE Concat(_)
Concat(q) == IF Len(q) = 0 THEN "" ELSE q[1] \o Concat(Tail(q))

SlugInputs == {Concat(q) : q \in SeqsUpTo(SlugAlphabet, MaxSlugLen)}

SlugScripts == {"generate_one_chapter.py", "gemini_polish.py"}

(* a fallback token that is not a slug *)
SlugFallback_with_blank == [f \in SlugScripts |-> "no title"]

(* return s or "chapter" / return s or "chap" *)
SlugFallback ==
    [f \in SlugScripts |-> IF f = "generate_one_chapter.py" THEN "chapter" ELSE "chap"]

(* one call slugify(s) of the script f *)
Slugify(f, s) ==
    /\ slug_fn = ""
    /\ slug_fn' = f
    /\ slug_arg' = s
    /\ slug_res' = slugify_or(s, SlugFallback[f])
    /\ UNCHANGED <<runVars, retryVars, draftVars, polishVars, safeCallVars, extractVars>>

(* slugify called on the value the previous call returned *)
SlugifyResult ==
    /\ slug_fn # ""
    /\ slug_arg' = slug_res
    /\ slug_res' = slugify_or(slug_res, SlugFallback[slug_fn])
    /\ UNCHANGED <<slug_fn, runVars, retryVars, draftVars, polishVars, safeCallVars, extractVars>>

InitSlug ==
    /\ script = "generate.py"
    /\ languages = <<>>
    /\ RunIdle
    /\ RetryIdle
    /\ DraftIdle
    /\ PolishIdle
    /\ UtilIdle

NextSlug ==
    \/ \E f \in SlugScripts, s \in SlugInputs : Slugify(f, s)
    \/ SlugifyResult

SpecSlug == InitSlug /\ [][NextSlug]_vars

SlugTypeOK ==
    /\ slug_fn \in SlugScripts \cup {""}
    /\ slug_arg \in SlugInputs \/ slug_arg = slug_res

SlugCalled == slug_fn # ""

(* the maximal runs of letters and digits of s, in lower case *)
RECURSIVE words_from(_, _, _)
words_from(s, cur, acc) ==
    IF Len(s) = 0 THEN (IF cur = "" THEN acc ELSE Append(acc, cur))
    ELSE LET ch == LowerChar(CharAt(s, 1))
             rest == SubSeq(s, 2, Len(s))
         IN  IF IsSlugChar(ch) THEN words_from(rest, cur \o ch, acc)
             ELSE words_from(rest, "", IF cur = "" THEN acc ELSE Append(acc, cur))

Words(s) == words_from(s, "", <<>>)

RECURSIVE Join(_, _)
Join(ws, sep) ==
    IF Len(ws) = 0 THEN ""
    ELSE IF Len(ws) = 1 THEN ws[1]
    ELSE ws[1] \o sep \o Join(Tail(ws), sep)

(* C23: for every input the slug is non-empty, holds only a-z, 0-9 and "-",
   has no two adjacent hyphens and no leading or trailing hyphen; every
   maximal run of other characters between letters or digits became a single
   hyphen, and an input without letter or digit yields the fallback token. *)
C23_SlugShape ==
    SlugCalled =>
        LET r == slug_res
            w == Words(slug_arg)
        IN  /\ Len(r) > 0
            /\ \A i \in 1..Len(r) : IsSlugChar(CharAt(r, i)) \/ CharAt(r, i) = "-"
            /\ ~Contains(r, "--")
            /\ CharAt(r, 1) # "-"
            /\ CharAt(r, Len(r)) # "-"
            /\ w # <<>> => r = Join(w, "-")
            /\ w = <<>> => r = SlugFallback[slug_fn]

(* a title with a run of two other characters between a letter and a capital,
   and a title without letter or digit *)
C23_Witness ==
    \/ slug_fn = "gemini_polish.py" /\ slug_arg = "a -B" /\ slug_res = "a-b"
    \/ slug_fn = "generate_one_chapter.py" /\ slug_arg = " -é" /\ slug_res = "chapter"

----------------------------------------------------------------------------
(* What a polishing run writes *)

(* the kind of a path by its place in the output layout:
   output/<lang>/drafts/<slug>.md, output/<lang>/drafts/meta/<slug>.json,
   output/<lang>/final/<slug>.md, output/errors/<name>.json *)
PathKind ==
    [p \in KnownPaths |->
        CASE EndsWith(p, ".json") /\ EndsWith(parent(p), "/drafts/meta") -> "meta"
          [] EndsWith(p, ".json") /\ parent(p) = "output/errors"         -> "error"
          [] EndsWith(p, ".md") /\ EndsWith(parent(p), "/final")         -> "final"
          [] EndsWith(parent(p), "/drafts")                               -> "draft"
          [] OTHER                                                         -> "other"]

(* C24: a polishing run marks nothing as completed and only adds outputs:
   every step of main leaves every draft file, every drafts/meta file and
   the completion log unchanged, and the only files it creates or changes
   are output/<lang>/final/<slug>.md and output/errors/*.json. *)
C24_OnlyAddsOutputs ==
    [][ /\ completedLog' = completedLog
        /\ \A p \in Touched(p_files, p_files') : PathKind[p] \in {"final", "error"}
        /\ DOMAIN p_files \subseteq DOMAIN p_files' ]_vars

(* a run that has ended wrote a polished file and an error record, and the
   pending drafts are still what read_pending_drafts finds *)
C24_Witness ==
    /\ PolishRunEnded
    /\ \E p \in DOMAIN p_files : PathKind[p] = "final"
    /\ \E p \in DOMAIN p_files : PathKind[p] = "error"
    /\ {it.draft : it \in read_pending_drafts(p_files)} =
           {ItemPaths[i].draft : i \in 1..Len(items)}
    /\ Len(items) = MaxItems

(* C26: every failure of a polish batch is persisted for later inspection:
   at the end of a run of main output/errors holds one JSON error record for
   each batch that failed in that run; a later failure never replaces the
   record of an earlier one. *)
C26_EveryFailureRecorded ==
    PolishRunEnded =>
        \A k \in 1..Len(errors) :
            \E p \in DOMAIN p_files : PathKind[p] = "error" /\ p_files[p] = errors[k]

----------------------------------------------------------------------------
(* C25: in MOCK_MODE a run of generate_chapters.py never calls the remote
   provider and never appends to the completion log: call_model returns the
   fabricated content without any client call, the chapter file is still
   written (when save_markdown does not fail), and the completion log after
   the run equals the log before the run. *)
C25_MockIsLocal ==
    (MockChapters /\ runs > 0) =>
        /\ completedLog = log0
        /\ \A i \in 1..Len(steps) : steps[i].gen = "ok" /\ ~steps[i].remote
        /\ (RunEnded /\ batch # <<>>) =>
               /\ Len(steps) = 1
               /\ exit = (IF steps[1].write = "ok" THEN "return0" ELSE "return3")
               /\ steps[1].write = "ok" =>
                      /\ OutPath(batch[1]) \in DOMAIN files
                      /\ files[OutPath(batch[1])] = steps[1].text

(* a mock run after a run that completed a language: the chapter is written,
   the log is the one the run found *)
C25_Witness ==
    /\ MockChapters
    /\ RunEnded
    /\ exit = "return0"
    /\ log0 # <<>>
    /\ completedLog = log0
    /\ Len(steps) = 1
    /\ ~steps[1].remote
    /\ files[OutPath(batch[1])] = steps[1].text

----------------------------------------------------------------------------
(* a run of generate.py with FORCE_LANGUAGE set *)
ForcedMain == script = "generate.py" /\ force # "" /\ runs > 0

(* the run generated, wrote and appended nothing but its override, and did
   not evaluate the queue selection *)
OnlyForced ==
    /\ batch = <<force>>
    /\ ~picked
    /\ \A i \in 1..Len(steps) : steps[i].lang = force
    /\ \A i \in 1..Len(NewEntries) : NewEntries[i] = force
    /\ Touched(files0, files) \subseteq {OutPath(force)}

(* C27 as stated: when FORCE_LANGUAGE is non-empty a run of generate.py
   generates only that language; the batch is exactly [FORCE_LANGUAGE]
   whatever the language list and the completion log contain. *)
C27_Original == ForcedMain => OnlyForced

(* the run ended in the configuration checks of lines 194-202 *)
ConfigExit == exit \in {"exit0", "exit1"}

(* C27: when FORCE_LANGUAGE is non-empty and the run passes its configuration
   checks (languages.txt not empty, master_prompt.txt present), the batch is
   exactly [FORCE_LANGUAGE] whatever the language list and the completion log
   contain, no other language is generated, written or appended in that run,
   and pick_next is not consulted. *)
C27_OnlyForced == (ForcedMain /\ ~ConfigExit) => OnlyForced

(* the override names a language that is already in the completion log and
   that languages.txt does not list; it is generated, written and appended *)
C27_Witness ==
    /\ ForcedMain
    /\ RunEnded
    /\ exit = "finished"
    /\ force \in read_list(log0)
    /\ \A k \in 1..Len(languages) : languages[k] # force
    /\ Eligible(languages, read_list(log0)) # {}
    /\ NewEntries = <<force>>
    /\ files[OutPath(force)] = steps[1].text

----------------------------------------------------------------------------
(* utils/rate_limit.py safe_call *)

MaxAttempts == 4     \* largest argument attempts explored

(* what a call of fn does: it returns a value, raises an exception derived
   from Exception, or raises one derived from BaseException only *)
Exceptions == {"RateLimit 429", "TimeoutError", "ValueError"}
BaseExceptions == {"KeyboardInterrupt", "SystemExit"}
FnOutcomes ==
    {[kind |-> "return", exc |-> ""]}
    \cup {[kind |-> "raise", exc |-> e] : e \in Exceptions \cup BaseExceptions}

Returned(v) == [kind |-> "return", value |-> v, exc |-> "", last |-> ""]
Raised(e, l) == [kind |-> "raise", value |-> 0, exc |-> e, last |-> l]

(* lines 22-39: safe_call(fn, attempts=n) is entered *)
SafeCallStart(n) ==
    /\ sc_pc = "idle"
    /\ sc_result.kind = "none"
    /\ attempts' = n
    /\ sc_pc' = "loop"
    /\ sc_attempt' = 1
    /\ last_error' = "None"
    /\ UNCHANGED <<fn_calls, sc_sleeps, sc_result, slugVars, extractVars,
                   runVars, retryVars, draftVars, polishVars>>

(* SafeCallTry with one more pass of the loop: range(1, attempts + 2) *)
SafeCallTry_one_more(o) ==
    /\ sc_pc = "loop"
    /\ sc_attempt <= attempts + 1
    /\ fn_calls' = Append(fn_calls, o)
    /\ IF o.kind = "return"
       THEN /\ sc_pc' = "done"
            /\ sc_result' = Returned(Len(fn_calls'))
            /\ UNCHANGED <<sc_attempt, last_error, sc_sleeps>>
       ELSE IF o.exc \in Exceptions
       THEN /\ last_error' = o.exc
            /\ sc_sleeps' = sc_sleeps + 1
            /\ sc_attempt' = sc_attempt + 1
            /\ UNCHANGED <<sc_pc, sc_result>>
       ELSE /\ sc_pc' = "done"
            /\ sc_result' = Raised(o.exc, last_error)
            /\ UNCHANGED <<sc_attempt, last_error, sc_sleeps>>
    /\ UNCHANGED <<attempts, slugVars, extractVars, runVars, retryVars, draftVars, polishVars>>

(* lines 41-49: one pass of the for loop; the value a call of fn returns is
   the number of that call *)
SafeCallTry(o) ==
    /\ sc_pc = "loop"
    /\ sc_attempt <= attempts
    /\ fn_calls' = Append(fn_calls, o)
    /\ IF o.kind = "return"
       THEN /\ sc_pc' = "done"
            /\ sc_result' = Returned(Len(fn_calls'))
            /\ UNCHANGED <<sc_attempt, last_error, sc_sleeps>>
       ELSE IF o.exc \in Exceptions
       THEN /\ last_error' = o.exc
            /\ sc_sleeps' = sc_sleeps + 1
            /\ sc_attempt' = sc_attempt + 1
            /\ UNCHANGED <<sc_pc, sc_result>>
       ELSE /\ sc_pc' = "done"
            /\ sc_result' = Raised(o.exc, last_error)
            /\ UNCHANGED <<sc_attempt, last_error, sc_sleeps>>
    /\ UNCHANGED <<attempts, slugVars, extractVars, runVars, retryVars, draftVars, polishVars>>

(* lines 51-53: the loop is exhausted *)
SafeCallExhausted ==
    /\ sc_pc = "loop"
    /\ sc_attempt > attempts
    /\ sc_pc' = "done"
    /\ sc_result' = Raised("RateLimitError", last_error)
    /\ UNCHANGED <<attempts, sc_attempt, fn_calls, last_error, sc_sleeps, slugVars, extractVars,
                   runVars, retryVars, draftVars, polishVars>>

InitSafeCall ==
    /\ script = "generate.py"
    /\ languages = <<>>
    /\ RunIdle
    /\ RetryIdle
    /\ DraftIdle
    /\ PolishIdle
    /\ UtilIdle

NextSafeCall ==
    \/ \E n \in 0..MaxAttempts : SafeCallStart(n)
    \/ \E o \in FnOutcomes : SafeCallTry(o)
    \/ SafeCallExhausted

SpecSafeCall == InitSafeCall /\ [][NextSafeCall]_vars

SafeCallTypeOK ==
    /\ attempts \in 0..MaxAttempts
    /\ sc_pc \in {"idle", "loop", "done"}
    /\ sc_attempt \in 0..(MaxAttempts + 1)
    /\ sc_sleeps \in 0..MaxAttempts

SafeCallEnded == sc_pc = "done"

(* the calls of fn that did not raise *)
Successes == {k \in 1..Len(fn_calls) : fn_calls[k].kind = "return"}

(* fn is called at most n times; the first call that does not raise is the
   last call, and its value is what safe_call returns *)
C28_FirstSuccessReturned ==
    /\ Len(fn_calls) <= attempts
    /\ \A k \in Successes :
           /\ k = Len(fn_calls)
           /\ SafeCallEnded
           /\ sc_result = Returned(k)
    /\ (SafeCallEnded /\ sc_result.kind = "return") => Successes # {}

(* C28 as stated: fn is called at most n times; the result of the first call
   that does not raise is returned and fn is not called again after it; if
   all n calls raise, RateLimitError is raised and no other exception type
   escapes. *)
C28_Original ==
    /\ C28_FirstSuccessReturned
    /\ (SafeCallEnded /\ Successes = {}) =>
           /\ Len(fn_calls) = attempts
           /\ sc_result.kind = "raise"
           /\ sc_result.exc = "RateLimitError"

(* C28: fn is called at most n times; the result of the first call that does
   not raise is returned and fn is not called again after it; if all n calls
   raise an exception derived from Exception, RateLimitError is raised and
   no other exception type escapes; an exception of fn that is not derived
   from Exception ends safe_call at once and escapes as it is. *)
C28_SafeCall ==
    /\ C28_FirstSuccessReturned
    /\ \A k \in 1..Len(fn_calls) :
           fn_calls[k].exc \in BaseExceptions =>
               /\ k = Len(fn_calls)
               /\ SafeCallEnded
               /\ sc_result.kind = "raise"
               /\ sc_result.exc = fn_calls[k].exc
    /\ (SafeCallEnded /\ \A k \in 1..Len(fn_calls) : fn_calls[k].exc \in Exceptions) =>
           /\ Len(fn_calls) = attempts
           /\ sc_sleeps = attempts
           /\ sc_result.kind = "raise"
           /\ sc_result.exc = "RateLimitError"
           /\ sc_result.last = (IF attempts = 0 THEN "None" ELSE fn_calls[attempts].exc)

(* three attempts: two calls raise, the third returns; and three attempts
   that all raise *)
C28_Witness ==
    /\ SafeCallEnded
    /\ attempts = 3
    /\ Len(fn_calls) = 3
    /\ fn_calls[1].exc = "RateLimit 429"
    /\ fn_calls[2].exc = "TimeoutError"
    /\ \/ sc_result = Returned(3)
       \/ sc_result = Raised("RateLimitError", "ValueError")

----------------------------------------------------------------------------
(* Progress of the queue: the workflow starts generate.py, or generate_chapters.py
   outside MOCK_MODE, again and again with no override and with master_prompt.txt
   in place; the runs are not counted *)

InitProgress ==
    /\ script \in QueueScripts
    /\ languages \in SeqsUpTo(Langs, MaxLangs)
    /\ completedLog = <<>>
    /\ files = NoFiles
    /\ pc = "idle"
    /\ batch = <<>>
    /\ idx = 0
    /\ content = 0
    /\ force = ""
    /\ mock = FALSE
    /\ exit = "none"
    /\ runs = Uncounted
    /\ gens = 0
    /\ log0 = <<>>
    /\ files0 = NoFiles
    /\ picked = FALSE
    /\ steps = <<>>
    /\ CHAPTER_TITLE_env = ""
    /\ prev = NoCrash
    /\ normal = TRUE
    /\ RetryIdle
    /\ DraftIdle
    /\ PolishIdle
    /\ UtilIdle

NextProgress ==
    \/ MainStart("", TRUE)
    \/ \E ok \in BOOLEAN : MainGenerate(ok)
    \/ \E w \in WriteOutcomes : MainWrite(w)
    \/ \E ok \in BOOLEAN : MainAppend(ok)
    \/ ChaptersStart("", FALSE)
    \/ \E ok \in BOOLEAN : ChaptersGenerate(ok)
    \/ \E w \in WriteOutcomes : ChaptersSave(w)
    \/ \E ok \in BOOLEAN : ChaptersAppend(ok)
    \/ Crash

(* the workflow is scheduled for ever and a started process takes its next
   step or is killed *)
SpecProgress == InitProgress /\ [][NextProgress]_vars /\ WF_vars(NextProgress)

ProgressTypeOK ==
    /\ script \in QueueScripts
    /\ pc \in {"idle", "generate", "write", "append"}
    /\ runs = Uncounted
    /\ force = ""
    /\ ~mock

(* the steps that succeed *)
GenerateOK == MainGenerate(TRUE) \/ ChaptersGenerate(TRUE)
WriteOK == MainWrite("ok") \/ ChaptersSave("ok")
AppendOK == MainAppend(TRUE) \/ ChaptersAppend(TRUE)

(* every listed language is in the log *)
AllIn(lines) == \A i \in 1..Len(languages) : \E j \in 1..Len(lines) : lines[j] = languages[i]

AllCompleted == AllIn(completedLog)

(* the set of completed languages is strictly larger than at the start of the run *)
Increased ==
    /\ \A j \in 1..Len(log0) : \E k \in 1..Len(completedLog) : completedLog[k] = log0[j]
    /\ \E k \in 1..Len(completedLog) : \A j \in 1..Len(log0) : log0[j] # completedLog[k]

(* a run that starts with every listed language completed is a no-op *)
C29_NoOpOnceDone ==
    AllIn(log0) =>
        /\ batch = <<>>
        /\ pc = "idle"
        /\ gens = 0
        /\ steps = <<>>
        /\ files = files0
        /\ completedLog = log0

C29_GenerationIncreases ==
    (RunEnded /\ \E k \in 1..Len(steps) : steps[k].gen = "ok") => Increased

C29_AppendIncreases ==
    (\E k \in 1..Len(steps) : steps[k].append = "ok") => Increased

(* C29 as stated: with no override, if every generation call eventually
   succeeds, repeated runs eventually put every listed language into the
   completion log and from then on every run is a no-op; each run in which a
   generation call succeeds strictly increases the set of completed languages. *)
C29_Original ==
    /\ [](C29_NoOpOnceDone)
    /\ [](C29_GenerationIncreases)
    /\ (SF_vars(GenerateOK) => <>[]AllCompleted)

(* C29: with no override and master_prompt.txt present, if every generation
   call, every write of the output file and every append to the completion
   log eventually succeeds, then repeated runs of generate.py (or
   generate_chapters.py in non-mock mode) eventually put every listed language
   into the completion log, and from then on every run is a no-op; each run in
   which a language is generated, written and appended strictly increases the
   set of completed languages. *)
C29_Progress ==
    /\ [](C29_NoOpOnceDone)
    /\ [](C29_AppendIncreases)
    /\ (SF_vars(GenerateOK) /\ SF_vars(WriteOK) /\ SF_vars(AppendOK)) => <>[]AllCompleted

(* after runs that completed two different languages, a run found nothing to do *)
C29_Witness ==
    /\ runs = Uncounted
    /\ \E i, j \in 1..Len(languages) : languages[i] # languages[j]
    /\ AllIn(log0)
    /\ picked
    /\ batch = <<>>
    /\ pc = "idle"
    /\ exit \in {"return", "return0"}
    /\ DOMAIN files # {}

----------------------------------------------------------------------------
(* C30: languages are completed in list order in generate_chapters.py: from an
   empty completion log and with no PREVIEW_LANGUAGE in any run, the set of
   completed languages is the set of a prefix of LANGUAGES: no language is in
   the log while a language listed before its first place in the list is
   missing from it. *)
Logged(L) == \E j \in 1..Len(completedLog) : completedLog[j] = L

C30_ListOrder ==
    (script = "generate_chapters.py" /\ normal) =>
        /\ \E k \in 0..Len(languages) :
              \A L \in Langs : Logged(L) <=> \E i \in 1..k : languages[i] = L
        /\ \A j \in 1..Len(languages) :
              (Logged(languages[j]) /\ \A i \in 1..(j - 1) : languages[i] # languages[j])
                  => \A i \in 1..j : Logged(languages[i])

(* the second of two non-mock runs has completed the second of three different
   languages and the third is not completed *)
C30_Witness ==
    /\ script = "generate_chapters.py"
    /\ normal
    /\ ~mock
    /\ runs = 2
    /\ Len(languages) = 3
    /\ languages[1] # languages[2]
    /\ languages[3] \notin {languages[1], languages[2]}
    /\ completedLog = <<languages[1], languages[2]>>
    /\ log0 = <<languages[1]>>

----------------------------------------------------------------------------
(* C31: after a quota-like error the polishing run stops: once a batch has
   raised an exception whose text contains "429" or, in any letter case,
   "quota", that batch is the last one attempted, no further request is issued,
   the error is in the error log and in an error file, and main has returned 0. *)
C31_QuotaText ==
    [o \in PolishFailures \cup {MissingToken} |->
        \/ \E i \in 1..(Len(o.msg) - 2) : SubSeq(o.msg, i, i + 2) = "429"
        \/ \E i \in 1..(Len(o.msg) - 4) : Lower(SubSeq(o.msg, i, i + 4)) = "quota"]

C31_Requests ==
    Cardinality({j \in 1..Len(tried) : tried[j].raised.stage # "read" /\ GOOGLE_ACCESS_TOKEN})

C31_StopsOnQuota ==
    /\ calls = C31_Requests
    /\ \A j \in 1..Len(tried) :
          LET e == tried[j].raised
          IN  (e.stage # "none" /\ C31_QuotaText[e]) =>
                 /\ j = Len(tried)
                 /\ p_pc = "idle"
                 /\ p_exit = "return0"
                 /\ errors # <<>>
                 /\ errors[Len(errors)].error = e.msg
                 /\ \E t \in 0..now :
                       /\ ErrorPaths[t] \in DOMAIN p_files
                       /\ p_files[ErrorPaths[t]].error = e.msg

(* a run polished its first batch, got a quota error without "429" for the
   second, and returned with a batch and budget left *)
C31_Witness ==
    /\ PolishRunEnded
    /\ Len(tried) = 2
    /\ Len(batches) = 3
    /\ sent = 1
    /\ sent < requests_allowed
    /\ tried[1].raised.stage = "none"
    /\ tried[2].raised.stage = "call"
    /\ C31_QuotaText[tried[2].raised]
    /\ \A i \in 1..(Len(tried[2].raised.msg) - 2) : SubSeq(tried[2].raised.msg, i, i + 2) # "429"
    /\ calls = 2

----------------------------------------------------------------------------
(* the token guard of line 205 fires for batch number b_no *)
C32_GuardFires(b_no) ==
    estimate_tokens_for_batch(batches[b_no]) > TPM_safe \div RPM_safe

(* the number of the error record of the j-th attempt, when it raised *)
C32_ErrorNo(j) == Cardinality({i \in 1..j : tried[i].raised.stage # "none"})

(* when the guard fires the request is made for the first item only: the other
   items of the batch get no final file in this run and an error record names
   the first item alone *)
C32_GuardFirstOnly ==
    \A j \in 1..Len(tried) :
        LET whole == batches[tried[j].batch]
        IN  C32_GuardFires(tried[j].batch) =>
               /\ \A i \in 2..Len(whole) :
                     /\ whole[i] \notin finals
                     /\ ItemPaths[whole[i]].final \notin DOMAIN p_files
               /\ tried[j].raised.stage # "none" =>
                     errors[C32_ErrorNo(j)].batch = <<whole[1]>>
               /\ tried[j].raised.stage = "none" =>
                     /\ whole[1] \in finals
                     /\ ItemPaths[whole[1]].final \in DOMAIN p_files

(* every item of the batches whose try body ran to its end has its final file *)
C32_AllWrittenWhenPolished ==
    \A j \in 1..Len(tried) :
        LET whole == batches[tried[j].batch]
        IN  (~C32_GuardFires(tried[j].batch) /\ tried[j].raised.stage = "none") =>
               \A i \in 1..Len(whole) :
                   /\ whole[i] \in finals
                   /\ ItemPaths[whole[i]].final \in DOMAIN p_files

(* C32: token guard in gemini_polish.main: when the estimated tokens of a
   batch exceed TPM_safe // RPM_safe the request is sent for the first item of
   the batch only and the remaining items get no final file and no request in
   that run; when the guard does not fire and call_gemini returned a response,
   one final file is written for each item of the batch. *)
C32_TokenGuard ==
    /\ C32_GuardFirstOnly
    /\ \A j \in 1..Len(tried) :
          LET whole == batches[tried[j].batch]
          IN  (/\ ~C32_GuardFires(tried[j].batch)
               /\ tried[j].raised.stage \in {"none", "extract", "write"}) =>
                 \A i \in 1..Len(whole) :
                     /\ whole[i] \in finals
                     /\ ItemPaths[whole[i]].final \in DOMAIN p_files

----------------------------------------------------------------------------
(* the failures the claim calls retryable: connection error, timeout, 5xx and
   any other RequestException *)
C33_Retryable(f) ==
    f.class \in {"connection", "timeout", "http500", "http502", "http503", "other"}

(* an attempt of post_with_retries is followed by one more sleep exactly when
   it failed with a retryable failure; no other step sleeps *)
C33_SleepStep ==
    fn = "post_with_retries" =>
        IF attempt' = attempt + 1
        THEN IF failure' # NoFailure /\ C33_Retryable(failure')
             THEN /\ Len(sleeps') = Len(sleeps) + 1
                  /\ sleeps'[Len(sleeps')].after = attempt'
             ELSE sleeps' = sleeps /\ rpc' = "done"
        ELSE sleeps' = sleeps

(* the sleeps are those of the attempts 1, 2, ... in turn; the function that
   has used up max_retries attempts on retryable failures has slept
   max_retries times and returns None *)
C33_SleepCount ==
    fn = "post_with_retries" =>
        /\ Len(sleeps) <= attempt
        /\ \A k \in 1..Len(sleeps) : sleeps[k].after = k
        /\ Len(sleeps) >= attempt - 1
        /\ (attempt >= 1 /\ (failure = NoFailure \/ ~C33_Retryable(failure)))
              => Len(sleeps) = attempt - 1
        /\ (attempt >= 1 /\ failure # NoFailure /\ C33_Retryable(failure))
              => Len(sleeps) = attempt
        /\ (rpc = "done" /\ Len(sleeps) = max_retries) => result = "None"

(* C33: in post_with_retries a backoff sleep follows every retryable failure
   (connection error, timeout, 5xx, other RequestException), the failure of
   the last permitted attempt included, and follows no success and no
   non-retryable failure: the number of sleeps equals the number of retryable
   failed attempts, and after max_retries retryable failures the function has
   slept max_retries times before it returns None. *)
C33_SleepAfterRetryable == [](C33_SleepCount) /\ [][C33_SleepStep]_vars

(* three attempts failed with a 5xx, a timeout and another RequestException,
   three sleeps were taken and None was returned *)
C33_Witness ==
    /\ fn = "post_with_retries"
    /\ rpc = "done"
    /\ result = "None"
    /\ max_retries = 3
    /\ attempt = 3
    /\ Len(sleeps) = 3
    /\ sleeps[3].after = 3
    /\ seen = {"http503", "timeout", "other"}

----------------------------------------------------------------------------
(* the batches one after the other *)
RECURSIVE C35_Concat(_)
C35_Concat(bs) == IF Len(bs) = 0 THEN <<>> ELSE bs[1] \o C35_Concat(Tail(bs))

(* C35: batch_items(items, k) with k >= 1 partitions the pending drafts: the
   batches of a run, concatenated in order, are the items in order; every
   batch has between 1 and k items, every batch but the last has exactly k,
   and no item is in two batches or twice in one. *)
C35_Partition ==
    (p_exit # "none" /\ BATCH_SIZE >= 1) =>
        LET bs == batches
            all == C35_Concat(bs)
        IN  /\ all = [i \in 1..Len(items) |-> i]
            /\ \A j \in 1..Len(bs) :
                  /\ Len(bs[j]) >= 1
                  /\ Len(bs[j]) <= BATCH_SIZE
                  /\ j < Len(bs) => Len(bs[j]) = BATCH_SIZE
            /\ \A i1, i2 \in 1..Len(all) : all[i1] = all[i2] => i1 = i2
            /\ \A j \in 1..Len(tried) : tried[j].batch \in 1..Len(bs)

(* a run over three drafts in batches of two has polished a full batch and
   the short last one *)
C35_Witness ==
    /\ PolishRunEnded
    /\ BATCH_SIZE = 2
    /\ Len(items) = 3
    /\ batches = <<(<<1, 2>>), (<<3>>)>>
    /\ Len(tried) = 2
    /\ finals = {1, 2, 3}

----------------------------------------------------------------------------
(* C36: slugify is idempotent in both scripts: the slug of a slug is that slug,
   the fallback token included: a call of slugify on the value of the previous
   call returns it unchanged. *)
C36_SlugOfSlug ==
    SlugCalled => slugify_or(slug_res, SlugFallback[slug_fn]) = slug_res

C36_AgainStep ==
    (slug_fn # "" /\ slug_fn' = slug_fn /\ slug_arg' = slug_res) => slug_res' = slug_res

C36_Idempotent == [](C36_SlugOfSlug) /\ [][C36_AgainStep]_vars

(* slugify of gemini_polish.py was given the fallback token it had returned
   for a title without letter or digit, and returned it again *)
C36_Witness ==
    /\ slug_fn = "gemini_polish.py"
    /\ slug_arg = "chap"
    /\ slug_res = "chap"

----------------------------------------------------------------------------
(* gemini_polish.py extract_polished_texts *)

MaxCandidates == 2   \* most entries of resp_json["candidates"]
MaxExpected == 3     \* largest expected_count

MARKER == "===POLISHED==="

(* s.find(sub) + 1: the first place of sub in s, 0 when it is not there *)
find(s, sub) ==
    LET at == {i \in 1..(Len(s) - Len(sub) + 1) : SubSeq(s, i, i + Len(sub) - 1) = sub}
    IN  IF at = {} THEN 0 ELSE CHOOSE i \in at : \A k \in at : i <= k

(* s.split(sep) *)
RECURSIVE split(_, _)
split(s, sep) ==
    LET i == find(s, sep)
    IN  IF i = 0 THEN <<s>>
        ELSE <<SubSeq(s, 1, i - 1)>> \o split(SubSeq(s, i + Len(sep), Len(s)), sep)

(* s.strip() *)
RECURSIVE strip_ws(_)
strip_ws(s) ==
    LET IsSpace(ch) == ch \in {" ", "\n", "\t"}
    IN  IF Len(s) = 0 THEN s
        ELSE IF IsSpace(CharAt(s, 1)) THEN strip_ws(SubSeq(s, 2, Len(s)))
        ELSE IF IsSpace(CharAt(s, Len(s))) THEN strip_ws(SubSeq(s, 1, Len(s) - 1))
        ELSE s

(* one entry of content["parts"]: a dict with a string "text" ("text"), a dict
   without "text" ("notext"), a dict whose "text" is a number ("num"), or a
   string in place of the dict ("str") *)
Part(kind, text) == [kind |-> kind, text |-> text]

(* one entry of resp_json["candidates"]: kind is "dict" or "str" (not a dict);
   content is "absent", "str", "dict", "null" or "list" *)
Candidate(kind, content_, text, parts) ==
    [kind |-> kind, content |-> content_, text |-> text, parts |-> parts]

(* resp_json: type is "dict", "list" or "null" (what r.json() returned);
   candidates_kind is "absent", "list" or "null" *)
Response(type, candidates_kind, candidates, has_output, output) ==
    [type |-> type, candidates_kind |-> candidates_kind, candidates |-> candidates,
     has_output |-> has_output, output |-> output]

(* lines 120-121: t += part.get("text", "") for every part *)
RECURSIVE parts_text(_, _)
parts_text(parts, t) ==
    IF Len(parts) = 0 THEN [raised |-> "none", kind |-> "str", text |-> t]
    ELSE LET part == parts[1]
         IN  CASE part.kind = "str"    -> [raised |-> "AttributeError", kind |-> "str", text |-> t]
               [] part.kind = "num"    -> [raised |-> "TypeError", kind |-> "str", text |-> t]
               [] part.kind = "notext" -> parts_text(Tail(parts), t)
               [] OTHER                -> parts_text(Tail(parts), t \o part.text)

(* lines 117-123: the text t of one candidate c; kind tells what t is *)
candidate_text(c) ==
    CASE c.kind # "dict"       -> [raised |-> "AttributeError", kind |-> "str", text |-> ""]
      [] c.content = "dict"    -> parts_text(c.parts, "")
      [] c.content = "str"     -> [raised |-> "none", kind |-> "str", text |-> c.text]
      [] c.content = "absent"  -> [raised |-> "none", kind |-> "str", text |-> ""]
      [] c.content = "null"    -> [raised |-> "none", kind |-> "None", text |-> ""]
      [] OTHER                 -> [raised |-> "none", kind |-> "list", text |-> ""]

(* lines 115-124: the loop over the candidates *)
RECURSIVE candidate_texts(_, _)
candidate_texts(cs, texts) ==
    IF Len(cs) = 0 THEN [raised |-> "none", texts |-> texts]
    ELSE LET t == candidate_text(cs[1])
         IN  IF t.raised # "none" THEN [raised |-> t.raised, texts |-> texts]
             ELSE candidate_texts(Tail(cs), Append(texts, t))

(* lines 109-142; raised names the exception that ends the call, "none" when
   it returns out *)
extract_polished_texts(resp_json, expected_count) ==
    IF resp_json.type = "null" THEN [raised |-> "TypeError", out |-> <<>>]
    ELSE IF resp_json.type = "dict" /\ resp_json.candidates_kind = "null"
    THEN [raised |-> "TypeError", out |-> <<>>]
    ELSE LET found == IF resp_json.type = "dict" /\ resp_json.candidates_kind = "list"
                      THEN candidate_texts(resp_json.candidates, <<>>)
                      ELSE [raised |-> "none", texts |-> <<>>]
             texts == IF found.texts = <<>> /\ resp_json.type = "dict" /\ resp_json.has_output
                      THEN <<[raised |-> "none", kind |-> "str", text |-> resp_json.output]>>
                      ELSE found.texts
             joined == Join([i \in 1..Len(texts) |-> texts[i].text], "\n")
             parts == split(joined, MARKER)
             out == IF find(joined, MARKER) # 0
                    THEN SelectSeq([i \in 1..Len(parts) |-> strip_ws(parts[i])],
                                   LAMBDA p : p # "")
                    ELSE <<strip_ws(joined)>>
             padded == IF Len(out) < expected_count
                       THEN out \o [i \in 1..(expected_count - Len(out)) |-> strip_ws(joined)]
                       ELSE out
         IN  IF found.raised # "none" THEN [raised |-> found.raised, out |-> <<>>]
             ELSE IF \E i \in 1..Len(texts) : texts[i].kind # "str"
             THEN [raised |-> "TypeError", out |-> <<>>]
             ELSE [raised |-> "none",
                   out |-> SubSeq(padded, 1, Min2(expected_count, Len(padded)))]

(* the texts and candidates given to the function *)
ExtractTexts ==
    {"", "A", " B\n", "A\n===POLISHED===\nB", "===POLISHED===",
     "A===POLISHED===B===POLISHED===C"}

ExtractCandidates ==
    {Candidate("dict", "str", t, <<>>) : t \in ExtractTexts}
    \cup {Candidate("dict", "dict", "", ps) :
            ps \in {<<>>,
                    <<Part("text", "A")>>,
                    <<Part("text", "A"), Part("notext", ""), Part("text", "===POLISHED===B")>>,
                    <<Part("text", "A"), Part("num", "")>>,
                    <<Part("str", "")>>}}
    \cup {Candidate("dict", k, "", <<>>) : k \in {"absent", "null", "list"}}
    \cup {Candidate("str", "absent", "", <<>>)}

ExtractResponses ==
    {Response("dict", "list", cs, o, IF o THEN "out" ELSE "") :
        cs \in SeqsUpTo(ExtractCandidates, MaxCandidates), o \in BOOLEAN}
    \cup {Response("dict", k, <<>>, o, IF o THEN " out ===POLISHED=== put" ELSE "") :
            k \in {"absent", "null"}, o \in BOOLEAN}
    \cup {Response("list", "absent", <<>>, FALSE, ""), Response("null", "absent", <<>>, FALSE, "")}

(* line 210: polished_texts = extract_polished_texts(resp, len(batch)) *)
ExtractCall ==
    /\ ex_result.raised = "not called"
    /\ ex_result' = extract_polished_texts(ex_resp, ex_count)
    /\ UNCHANGED <<ex_resp, ex_count, slugVars, safeCallVars,
                   runVars, retryVars, draftVars, polishVars>>

InitExtract ==
    /\ script = "generate.py"
    /\ languages = <<>>
    /\ RunIdle
    /\ RetryIdle
    /\ DraftIdle
    /\ PolishIdle
    /\ slug_fn = ""
    /\ slug_arg = ""
    /\ slug_res = ""
    /\ attempts = 0
    /\ sc_pc = "idle"
    /\ sc_attempt = 0
    /\ fn_calls = <<>>
    /\ last_error = "None"
    /\ sc_sleeps = 0
    /\ sc_result = [kind |-> "none", value |-> 0, exc |-> "", last |-> ""]
    /\ ex_resp \in ExtractResponses
    /\ ex_count \in 0..MaxExpected
    /\ ex_result = [raised |-> "not called", out |-> <<>>]

NextExtract == ExtractCall

SpecExtract == InitExtract /\ [][NextExtract]_vars

ExtractCalled == ex_result.raised # "not called"

----------------------------------------------------------------------------
(* a call that returns gives exactly expected_count texts: the parts in order,
   cut after expected_count, and the whole stripped text for each missing one *)
C34_CountWhenReturned ==
    (ExtractCalled /\ ex_result.raised = "none") =>
        /\ Len(ex_result.out) = ex_count
        /\ \A i \in 1..Len(ex_result.out) : ex_result.out[i] = strip_ws(ex_result.out[i])

(* C34: extract_polished_texts(resp_json, expected_count) returns a list of
   exactly expected_count texts for every response shape and every
   expected_count >= 0, so that write_polished pairs every item of the batch
   with a text. *)
C34_ExactlyExpected ==
    ExtractCalled =>
        /\ ex_result.raised = "none"
        /\ Len(ex_result.out) = ex_count

====
